---------------------------- MODULE Spec2Model ----------------------------
(***************************************************************************)
(* Email ingestion pipeline of the job-application tracker                 *)
(* (app/routers/ingest.py and the services it calls), over a record store  *)
(* with the tables profiles, applications, email_messages and              *)
(* application_events.                                                      *)
(*                                                                         *)
(* Python strings are TLA+ strings; None is the value None below.  Every   *)
(* store call of the handler is one step, so that requests of several      *)
(* server processes interleave at the store.                               *)
(***************************************************************************)
EXTENDS Integers, Sequences, FiniteSets, TLC

(***************************************************************************)
(* Bounds of the model.                                                    *)
(***************************************************************************)
\* number of ingestion requests (and API calls) of one behaviour
MaxRequests == 3

\* number of requests of one behaviour of SpecRace
MaxRaceRequests == 2

\* number of requests of one behaviour of SpecFail
MaxFailRequests == 2

\* requests to POST /ingest/email that reach the handler
MaxAuthRequests == 2

\* ingestion requests of one behaviour of SpecPreview
MaxPreviewRequests == 2

\* ingestion requests and API calls of one behaviour of SpecTenant
MaxTenantRequests == 3

\* create requests of one behaviour of SpecLimit
MaxLimitRequests == 3

\* sessions started in one behaviour of SpecBridge
MaxSessions == 2

\* the last time of the server's clock
MaxNow == 2

(***************************************************************************)
(* Python values.                                                          *)
(***************************************************************************)
\* Python's None, for optional strings
None == "<None>"

\* Python's None, for an optional application id
NoApp == 0

\* Python's None, for an optional time
NoTime == -1

\* bool(x) of an optional string: None and "" are falsy
Truthy(x) == x # None /\ x # ""

(***************************************************************************)
(* str methods and the regular expressions of app/services/parsing.py.     *)
(***************************************************************************)
UpperChars == "ABCDEFGHIJKLMNOPQRSTUVWXYZ"

LowerChars == "abcdefghijklmnopqrstuvwxyz"

Whitespace == {" ", "\t", "\n", "\r"}

CharAt(s, i) == SubSeq(s, i, i)

IsUpper(c) == \E k \in 1..Len(UpperChars) : CharAt(UpperChars, k) = c

IsLower(c) == \E k \in 1..Len(LowerChars) : CharAt(LowerChars, k) = c

IsLetter(c) == IsUpper(c) \/ IsLower(c)

\* the regex class [A-Za-z\s]
IsLetterOrSpace(c) == IsLetter(c) \/ c \in Whitespace

LowerChar(c) ==
    IF IsUpper(c)
    THEN CharAt(LowerChars, CHOOSE k \in 1..Len(UpperChars) : CharAt(UpperChars, k) = c)
    ELSE c

UpperChar(c) ==
    IF IsLower(c)
    THEN CharAt(UpperChars, CHOOSE k \in 1..Len(LowerChars) : CharAt(LowerChars, k) = c)
    ELSE c

RECURSIVE Lower(_)
\* str.lower()
Lower(s) == IF Len(s) = 0 THEN "" ELSE LowerChar(CharAt(s, 1)) \o Lower(SubSeq(s, 2, Len(s)))

RECURSIVE LStrip(_)
LStrip(s) ==
    IF Len(s) > 0 /\ CharAt(s, 1) \in Whitespace THEN LStrip(SubSeq(s, 2, Len(s))) ELSE s

RECURSIVE RStrip(_)
RStrip(s) ==
    IF Len(s) > 0 /\ CharAt(s, Len(s)) \in Whitespace
    THEN RStrip(SubSeq(s, 1, Len(s) - 1))
    ELSE s

\* str.strip()
Strip(s) == RStrip(LStrip(s))

\* str.capitalize(): first character upper-cased, the rest lower-cased
Capitalize(s) ==
    IF Len(s) = 0 THEN "" ELSE UpperChar(CharAt(s, 1)) \o Lower(SubSeq(s, 2, Len(s)))

\* kw in s
Contains(s, kw) ==
    \E i \in 1..(Len(s) - Len(kw) + 1) : SubSeq(s, i, i + Len(kw) - 1) = kw

\* any(keyword in content for keyword in keywords)
AnyIn(keywords, content) == \E kw \in keywords : Contains(content, kw)

\* the text s[i..j] starts with lit at position i
StartsAt(s, i, lit) == i + Len(lit) - 1 <= Len(s) /\ SubSeq(s, i, i + Len(lit) - 1) = lit

\* last index of the longest run of characters of the class [A-Za-z\s] starting at i
\* (i - 1 when s[i] is not of the class)
RECURSIVE RunEnd(_, _)
RunEnd(s, i) ==
    IF i <= Len(s) /\ IsLetterOrSpace(CharAt(s, i)) THEN RunEnd(s, i + 1) ELSE i - 1

\* last index of the longest run of characters other than "." starting at i
RECURSIVE NotDotEnd(_, _)
NotDotEnd(s, i) ==
    IF i <= Len(s) /\ CharAt(s, i) # "." THEN NotDotEnd(s, i + 1) ELSE i - 1

(***************************************************************************)
(* The inbound emails of the model: EmailIngest payloads.                  *)
(***************************************************************************)
EmailIngest(sender, subject, text_body, received_at, parsed_company, parsed_position, parsed_status, parsed_job_url, detected_status) ==
    [sender |-> sender, subject |-> subject, text_body |-> text_body,
     received_at |-> received_at, parsed_company |-> parsed_company,
     parsed_position |-> parsed_position, parsed_status |-> parsed_status,
     parsed_job_url |-> parsed_job_url, detected_status |-> detected_status]

\* 1: a confirmation; 2: the same sender, subject and time with a rejection body
\* and the add-on's own company and position; 3: a later message of the thread
\* of 1; 4: marketing mail; 5: mail of a recruiting platform, nothing to
\* extract; 6: the same sender, subject and time as 5 with the add-on's fields.
Emails ==
    << EmailIngest("jobs@acme.com", "Application Received - Engineer",
                   "Thank you for applying", "2025-10-13T10:00:00",
                   None, None, None, None, None),
       EmailIngest("Jobs@Acme.com ", " Application Received - Engineer",
                   "Unfortunately we are not moving forward", "2025-10-13T10:00:00",
                   "Beta", "Dev", None, None, None),
       EmailIngest("jobs@acme.com", "Application Received - Engineer",
                   "We would like to schedule an interview", "2025-10-14T09:00:00",
                   None, None, None, None, None),
       EmailIngest("promo@deals.com", "50% off trading signals",
                   None, "2025-10-13T10:00:00",
                   None, None, None, None, None),
       EmailIngest("noreply@greenhouse.io", "Interview invitation",
                   "", None,
                   None, None, None, None, None),
       EmailIngest("noreply@greenhouse.io", "Interview invitation",
                   "A brief chat about the role", None,
                   "Beta", "Dev", "screening", "https://beta.example/jobs/1", None) >>

EmailIds == DOMAIN Emails

(***************************************************************************)
(* app/services/parsing.py                                                 *)
(***************************************************************************)
\* re.search(r'@([^.]+)', sender.lower()): the leftmost "@" that is followed
\* by a character other than "."; 0 when there is none
DomainStart(s) ==
    LET hits == {i \in 1..(Len(s) - 1) : CharAt(s, i) = "@" /\ CharAt(s, i + 1) # "."}
    IN  IF hits = {} THEN 0 ELSE (CHOOSE i \in hits : \A j \in hits : i <= j) + 1

recruiting_platforms ==
    {"greenhouse", "lever", "workday", "taleo", "smartrecruiters",
     "indeed", "linkedin", "glassdoor", "monster", "gmail", "outlook"}

\* variant that returns the domain as matched, without capitalize(); C20
\* does not hold of it
extract_company_from_sender_as_matched(sender) ==
    LET s == Lower(sender)
        b == DomainStart(s)
        domain == SubSeq(s, b, NotDotEnd(s, b))
    IN  IF b = 0 THEN None
        ELSE IF domain \in recruiting_platforms THEN None
        ELSE domain

extract_company_from_sender(sender) ==
    LET s == Lower(sender)
        b == DomainStart(s)
        domain == SubSeq(s, b, NotDotEnd(s, b))
    IN  IF b = 0 THEN None
        ELSE IF domain \in recruiting_platforms THEN None
        ELSE Capitalize(domain)

\* Pattern 1, r' - ([A-Z][A-Za-z\s]+)$': start of the group of the leftmost match, or 0
Pattern1Start(s) ==
    LET hits == {i \in 1..Len(s) :
                    /\ StartsAt(s, i, " - ")
                    /\ i + 4 <= Len(s)
                    /\ IsUpper(CharAt(s, i + 3))
                    /\ RunEnd(s, i + 4) = Len(s)}
    IN  IF hits = {} THEN 0 ELSE (CHOOSE i \in hits : \A j \in hits : i <= j) + 3

\* Pattern 2, r' for ([A-Z][A-Za-z\s]+)'
Pattern2Start(s) ==
    LET hits == {i \in 1..Len(s) :
                    /\ StartsAt(s, i, " for ")
                    /\ i + 6 <= Len(s)
                    /\ IsUpper(CharAt(s, i + 5))
                    /\ IsLetterOrSpace(CharAt(s, i + 6))}
    IN  IF hits = {} THEN 0 ELSE (CHOOSE i \in hits : \A j \in hits : i <= j) + 5

\* Pattern 3, r' to ([A-Z][A-Za-z\s]+) position' with re.IGNORECASE: the ends j
\* of a group starting at b that are followed by " position"
Pattern3Ends(s, b) ==
    {j \in (b + 1)..RunEnd(s, b + 1) : StartsAt(Lower(s), j + 1, " position")}

Pattern3Start(s) ==
    LET hits == {i \in 1..Len(s) :
                    /\ StartsAt(Lower(s), i, " to ")
                    /\ i + 5 <= Len(s)
                    /\ IsLetter(CharAt(s, i + 4))
                    /\ Pattern3Ends(s, i + 4) # {}}
    IN  IF hits = {} THEN 0 ELSE (CHOOSE i \in hits : \A j \in hits : i <= j) + 4

extract_position_from_subject(subject) ==
    LET b1 == Pattern1Start(subject)
        b2 == Pattern2Start(subject)
        b3 == Pattern3Start(subject)
    IN  IF b1 # 0 THEN Strip(SubSeq(subject, b1, Len(subject)))
        ELSE IF b2 # 0 THEN Strip(SubSeq(subject, b2, RunEnd(subject, b2 + 1)))
        ELSE IF b3 # 0
        THEN LET ends == Pattern3Ends(subject, b3)
                 e == CHOOSE j \in ends : \A k \in ends : k <= j
             IN  Strip(SubSeq(subject, b3, e))
        ELSE None

\* content = (subject + " " + (text_body or "")).lower()
Content(subject, text_body) ==
    Lower(subject \o " " \o (IF Truthy(text_body) THEN text_body ELSE ""))

status_rejection_keywords ==
    {"unfortunately", "not moving forward", "not selected",
     "decided not to", "other candidates", "not the right fit"}

status_offer_keywords ==
    {"congratulations", "pleased to offer", "offer letter",
     "accept the position", "job offer"}

status_interview_keywords ==
    {"interview", "schedule a call", "meet with", "next steps",
     "phone screen", "technical assessment"}

status_screening_keywords == {"phone screen", "initial call", "brief chat", "screening"}

\* variant that looks for the offer keywords first; C17 does not hold of it
detect_status_offer_first(subject, text_body) ==
    LET content == Content(subject, text_body)
    IN  IF AnyIn(status_offer_keywords, content) THEN "offer"
        ELSE IF AnyIn(status_rejection_keywords, content) THEN "rejected"
        ELSE IF AnyIn(status_interview_keywords, content) THEN "interviewing"
        ELSE IF AnyIn(status_screening_keywords, content) THEN "screening"
        ELSE "applied"

detect_status_from_content(subject, text_body) ==
    LET content == Content(subject, text_body)
    IN  IF AnyIn(status_rejection_keywords, content) THEN "rejected"
        ELSE IF AnyIn(status_offer_keywords, content) THEN "offer"
        ELSE IF AnyIn(status_interview_keywords, content) THEN "interviewing"
        ELSE IF AnyIn(status_screening_keywords, content) THEN "screening"
        ELSE "applied"

\* variant that counts every non-empty status, "applied" too; C19 does not
\* hold of it
calculate_confidence_any_status(company, position, status) ==
    LET score == (IF Truthy(company) THEN 1 ELSE 0)
                 + (IF Truthy(position) THEN 1 ELSE 0)
                 + (IF Truthy(status) THEN 1 ELSE 0)
    IN  (score * 200 + 3) \div 6

\* round(score / max_score, 2), in hundredths
calculate_confidence(company, position, status) ==
    LET score == (IF Truthy(company) THEN 1 ELSE 0)
                 + (IF Truthy(position) THEN 1 ELSE 0)
                 + (IF Truthy(status) /\ status # "applied" THEN 1 ELSE 0)
    IN  (score * 200 + 3) \div 6

\* variant that prefers the pre-parsed status to the AI-detected one; C18 does
\* not hold of it
parse_job_application_email_parsed_first(email_data) ==
    LET company == IF Truthy(email_data.parsed_company)
                   THEN email_data.parsed_company
                   ELSE extract_company_from_sender(email_data.sender)
        position == IF Truthy(email_data.parsed_position)
                    THEN email_data.parsed_position
                    ELSE extract_position_from_subject(email_data.subject)
        status == IF Truthy(email_data.parsed_status) THEN email_data.parsed_status
                  ELSE IF Truthy(email_data.detected_status) THEN email_data.detected_status
                  ELSE detect_status_from_content(email_data.subject, email_data.text_body)
        email_source_url == IF Truthy(email_data.parsed_job_url)
                            THEN email_data.parsed_job_url
                            ELSE None
    IN  [company |-> company, position |-> position, status |-> status,
         source_url |-> email_source_url,
         confidence |-> calculate_confidence(company, position, status)]

\* EmailIngest declares no job_url field, so hasattr(email_data, 'job_url') is
\* false and the source URL is the pre-parsed parsed_job_url
parse_job_application_email(email_data) ==
    LET company == IF Truthy(email_data.parsed_company)
                   THEN email_data.parsed_company
                   ELSE extract_company_from_sender(email_data.sender)
        position == IF Truthy(email_data.parsed_position)
                    THEN email_data.parsed_position
                    ELSE extract_position_from_subject(email_data.subject)
        status == IF Truthy(email_data.detected_status) THEN email_data.detected_status
                  ELSE IF Truthy(email_data.parsed_status) THEN email_data.parsed_status
                  ELSE detect_status_from_content(email_data.subject, email_data.text_body)
        email_source_url == IF Truthy(email_data.parsed_job_url)
                            THEN email_data.parsed_job_url
                            ELSE None
    IN  [company |-> company, position |-> position, status |-> status,
         source_url |-> email_source_url,
         confidence |-> calculate_confidence(company, position, status)]

\* the keyword fallback of EmailParser._is_job_application
is_job_by_keywords(email_data) ==
    LET content == Content(email_data.subject, email_data.text_body)
        job_keywords ==
            {"job application", "application received", "thank you for applying",
             "interview", "job offer", "position", "career opportunity",
             "hiring", "recruiter", "candidate", "resume", "cv",
             "employment", "role", "we received your application",
             "next steps", "schedule interview", "application status"}
        rejection_keywords ==
            {"not selected", "decided to go with another candidate",
             "unfortunately", "not moving forward", "not the right fit"}
    IN  AnyIn(job_keywords, content) \/ AnyIn(rejection_keywords, content)

\* Outcomes of the AI classification of one request: "fallback" when no API
\* key is set, the call fails or its answer cannot be used (the function
\* returns None or raises); "job" and "not_job" for the verdict it returns.
AIOutcomes == {"fallback", "job", "not_job"}


(***************************************************************************)
(* app/services/emails.py                                                  *)
(***************************************************************************)
\* The SHA-256 digest of json.dumps(canonical, sort_keys=True) is taken to be
\* injective: the fingerprint is the canonical triple, in key order.
generate_email_hash_sender_as_sent(email_data) ==
    << IF Truthy(email_data.received_at) THEN email_data.received_at ELSE "",
       email_data.sender,
       Strip(email_data.subject) >>

generate_email_hash(email_data) ==
    << IF Truthy(email_data.received_at) THEN email_data.received_at ELSE "",
       Strip(Lower(email_data.sender)),
       Strip(email_data.subject) >>

\* parse results and fingerprints of the model's emails
Parsed == [e \in EmailIds |-> parse_job_application_email(Emails[e])]

HashOf == [e \in EmailIds |-> generate_email_hash(Emails[e])]

IsJobByKeywords == [e \in EmailIds |-> is_job_by_keywords(Emails[e])]

\* EmailParser._is_job_application on email e of the model
is_job_application(e, ai) ==
    IF ai = "job" THEN TRUE
    ELSE IF ai = "not_job" THEN FALSE
    ELSE IsJobByKeywords[e]

\* variant of the validation that asks for both fields to be absent; C8 does
\* not hold of it
insufficient_data_both(parsed) == ~Truthy(parsed.company) /\ ~Truthy(parsed.position)

\* app/routers/ingest.py, "Step 3: Validate parsed data"
insufficient_data(parsed) == ~Truthy(parsed.company) \/ ~Truthy(parsed.position)

(***************************************************************************)
(* Status normalization of app/routers/ingest.py, "Step 6".                *)
(***************************************************************************)
allowed_statuses == {"applied", "interviewing", "offer", "rejected", "withdrawn"}

\* status_map.get(raw_status, "applied")
status_map(raw_status) ==
    CASE raw_status \in {"reject", "rejection", "declined", "decline", "rejected"}
            -> "rejected"
      [] raw_status \in {"interview", "interviews", "interview_scheduled",
                         "interview_completed", "screening", "screen", "interviewing"}
            -> "interviewing"
      [] raw_status \in {"offer received", "offer_received", "offeraccepted",
                         "accepted offer", "accepted", "offer"}
            -> "offer"
      [] raw_status = "withdrawn" -> "withdrawn"
      [] raw_status \in {"applied", "wishlist"} -> "applied"
      [] OTHER -> "applied"

\* variant that looks the status up as given, without strip() and lower();
\* C16 does not hold of it
normalize_status_as_given(status) ==
    LET raw_status == IF Truthy(status) THEN status ELSE ""
        normalized_status == status_map(raw_status)
    IN  IF normalized_status \notin allowed_statuses THEN "applied" ELSE normalized_status

normalize_status(status) ==
    LET raw_status == Lower(Strip(IF Truthy(status) THEN status ELSE ""))
        normalized_status == status_map(raw_status)
    IN  IF normalized_status \notin allowed_statuses THEN "applied" ELSE normalized_status

\* the text of a confidence value (hundredths) in a message
ConfStr(c) ==
    CASE c = 0 -> "0.0" [] c = 33 -> "0.33" [] c = 67 -> "0.67" [] OTHER -> "1.0"

(***************************************************************************)
(* The store and the requests in flight.                                   *)
(***************************************************************************)
Users == {"u1", "u2"}

\* server processes, each handling one request at a time
Procs == {1, 2}

VARIABLES
    profiles,            \* table profiles: the ids of the users that have a profile
    applications,        \* table applications: sequence of rows, in insertion order
    email_messages,      \* table email_messages: sequence of rows
    application_events,  \* table application_events: sequence of rows
    req,                 \* per process: the request it handles, its locals and position
    ingested,            \* history: ids of the applications ingestion created
    history,             \* history: per (user, email), how often it was ingested and
                         \* the response of its first ingestion
    nreq,                \* history: number of requests started
    call,                \* a call of one of the pure functions: input and result
    api_keys,            \* table api_keys: set of rows
    now,                 \* the time of the server's clock
    api,                 \* the request to an endpoint that is being answered
    sessions,            \* auth bridge: sessions, by session handle
    rate_limit_store,    \* auth bridge: times of the token requests, by handle
    issued,              \* history: the sessions /session/start issued, by handle
    ended                \* history: the handles DELETE /session ended

\* the state of the auth bridge (auth-bridge/main.py)
bridge == <<sessions, rate_limit_store, issued, ended>>

\* the state that ingest_email does not touch
outside == <<api_keys, now, api, bridge>>

vars == <<profiles, applications, email_messages, application_events, req, ingested,
          history, nreq, call, outside>>

store == <<profiles, applications, email_messages, application_events>>

NoEmailRow == [id |-> 0, application_id |-> NoApp, email_hash |-> <<>>]

NoAppRow ==
    [id |-> NoApp, user_id |-> None, company |-> None, position |-> None,
     status |-> None, source_url |-> None, notes |-> None]

NoParsed ==
    [company |-> None, position |-> None, status |-> None, source_url |-> None,
     confidence |-> -1]

NoKwargs == [status |-> None, notes |-> None, source_url |-> None]

NoResponse ==
    [status_code |-> 0, success |-> FALSE, application_id |-> NoApp,
     message |-> "", duplicate |-> FALSE]

IngestResponse(success, application_id, message, duplicate) ==
    [status_code |-> 200, success |-> success, application_id |-> application_id,
     message |-> message, duplicate |-> duplicate]

\* raise HTTPException(status_code=..., detail=...); an exception no handler
\* catches leaves the request as status 500, "Internal Server Error"
HTTPException(status_code, detail) ==
    [status_code |-> status_code, success |-> FALSE, application_id |-> NoApp,
     message |-> detail, duplicate |-> FALSE]

IdleReq ==
    [pc |-> "idle", user_id |-> None, email |-> 0, is_job_email |-> "unset",
     existing_email |-> NoEmailRow, parsed |-> NoParsed, existing_app |-> NoAppRow,
     update_kwargs |-> NoKwargs, application_id |-> NoApp, response |-> NoResponse,
     \* history: the number of the request, the tables when it started, the
     \* application it inserted, and the request that had passed the existence
     \* lookup for the same key and not inserted yet when this one looked up
     serial |-> 0, pre_applications |-> <<>>, pre_emails |-> <<>>, created |-> NoApp,
     raced |-> 0,
     \* history: the store calls of the request that raised
     failed |-> {}]

\* a row of table api_keys (app/routers/auth.py inserts user_id, api_key,
\* name, created_at and expires_at)
ApiKeyRow(api_key, user_id, expires_at) ==
    [api_key |-> api_key, user_id |-> user_id, expires_at |-> expires_at,
     last_used_at |-> NoTime]

\* no request is being answered
NoApi == [endpoint |-> "", stage |-> "idle"]

\* the keys issued: one of u1 that never expires, one of u2 that expires at 1
InitOutside ==
    /\ api_keys = {ApiKeyRow("key-u1", "u1", NoTime), ApiKeyRow("key-u2", "u2", 1)}
    /\ now = 0
    /\ api = NoApi
    /\ sessions = <<>>
    /\ rate_limit_store = <<>>
    /\ issued = <<>>
    /\ ended = {}

Init ==
    /\ InitOutside
    /\ profiles = {}
    /\ applications = <<>>
    /\ email_messages = <<>>
    /\ application_events = <<>>
    /\ req = [p \in Procs |-> IdleReq]
    /\ ingested = {}
    /\ history = [u \in Users |-> [e \in EmailIds |-> [count |-> 0, first |-> NoResponse]]]
    /\ nreq = 0
    \* no call of a pure function
    /\ call = [fn |-> "", stage |-> "none",
               input |-> EmailIngest(None, None, None, None, None, None, None, None, None),
               output |-> NoParsed]

Rows(table) == {table[i] : i \in DOMAIN table}

(***************************************************************************)
(* Store queries and writes of the services.                               *)
(***************************************************************************)
\* app/services/emails.py check_duplicate_email: the rows a select by hash may
\* return first (result.data[0]; the query states no order), NoEmailRow when
\* there is none.  The query is not scoped by user.
check_duplicate_email(email_hash) ==
    LET found == {r \in Rows(email_messages) : r.email_hash = email_hash}
    IN  IF found = {} THEN {NoEmailRow} ELSE found

\* app/services/applications.py get_application_by_id: filtered by id alone
get_application_by_id(application_id, user_id) ==
    LET found == {r \in Rows(applications) : r.id = application_id}
    IN  IF found = {} THEN NoAppRow ELSE CHOOSE r \in found : TRUE

\* app/services/applications.py update_application: the table after the
\* partial update, filtered by id alone
update_application(application_id, user_id, data) ==
    [i \in DOMAIN applications |->
        IF applications[i].id = application_id
        THEN [applications[i] EXCEPT
                !.status = IF data.status # None THEN data.status ELSE @,
                !.source_url = IF data.source_url # None THEN data.source_url ELSE @,
                !.notes = IF data.notes # None THEN data.notes ELSE @]
        ELSE applications[i]]

\* variant of the lookup that compares the company column with the position;
\* C2 does not hold of it
existing_applications_wrong_column(user_id, company, position) ==
    {r \in Rows(applications) :
        r.user_id = user_id /\ r.company = position /\ r.position = position}

\* app/routers/ingest.py "Step 5": select by user_id, company and position
existing_applications(user_id, company, position) ==
    {r \in Rows(applications) :
        r.user_id = user_id /\ r.company = company /\ r.position = position}

\* app/services/applications.py create_application: the inserted row
create_application(user_id, company, position, status, notes) ==
    [id |-> Len(applications) + 1, user_id |-> user_id, company |-> company,
     position |-> position, status |-> status, source_url |-> None, notes |-> notes]

\* app/services/emails.py store_email_message: the inserted row
store_email_message(e, application_id) ==
    [id |-> Len(email_messages) + 1, application_id |-> application_id,
     email_hash |-> HashOf[e]]

\* variant of the decision without the test new_status != "applied"; C5 does
\* not hold of it
duplicate_update_kwargs_any_status(parsed, existing_app) ==
    LET current_status == IF existing_app # NoAppRow THEN existing_app.status ELSE "applied"
        new_status == parsed.status
        status_changed == Truthy(new_status) /\ new_status # current_status
        new_source_url == parsed.source_url
        current_source_url == IF existing_app # NoAppRow THEN existing_app.source_url ELSE None
        url_changed == Truthy(new_source_url) /\ new_source_url # current_source_url
    IN  [status |-> IF status_changed THEN new_status ELSE None,
         notes |-> IF status_changed
                   THEN "Status updated from email. Previous: " \o current_status
                        \o ", New: " \o new_status
                   ELSE None,
         source_url |-> IF url_changed THEN new_source_url ELSE None]

\* variant of the decision without the source-URL rule; C11 does not hold of it
duplicate_update_kwargs_no_url(parsed, existing_app) ==
    LET current_status == IF existing_app # NoAppRow THEN existing_app.status ELSE "applied"
        new_status == parsed.status
        status_changed ==
            Truthy(new_status) /\ new_status # current_status /\ new_status # "applied"
    IN  [status |-> IF status_changed THEN new_status ELSE None,
         notes |-> IF status_changed
                   THEN "Status updated from email. Previous: " \o current_status
                        \o ", New: " \o new_status
                   ELSE None,
         source_url |-> None]

\* app/routers/ingest.py lines 127-143: the fields a duplicate email changes
duplicate_update_kwargs(parsed, existing_app) ==
    LET current_status == IF existing_app # NoAppRow THEN existing_app.status ELSE "applied"
        new_status == parsed.status
        status_changed ==
            Truthy(new_status) /\ new_status # current_status /\ new_status # "applied"
        new_source_url == parsed.source_url
        current_source_url == IF existing_app # NoAppRow THEN existing_app.source_url ELSE None
        url_changed == Truthy(new_source_url) /\ new_source_url # current_source_url
    IN  [status |-> IF status_changed THEN new_status ELSE None,
         notes |-> IF status_changed
                   THEN "Status updated from email. Previous: " \o current_status
                        \o ", New: " \o new_status
                   ELSE None,
         source_url |-> IF url_changed THEN new_source_url ELSE None]

(***************************************************************************)
(* POST /ingest/email: ingest_email of app/routers/ingest.py, one action   *)
(* per store call.                                                         *)
(***************************************************************************)
Goto(p, pc) == req' = [req EXCEPT ![p].pc = pc]

Respond(p, response) == req' = [req EXCEPT ![p].pc = "done", ![p].response = response]

\* the handler is entered with the authenticated user and the payload
IngestEmail(p, u, e) ==
    /\ req[p].pc = "idle"
    /\ nreq < MaxRequests
    /\ nreq' = nreq + 1
    /\ req' = [req EXCEPT ![p] = [IdleReq EXCEPT
                  !.pc = "get_profile", !.user_id = u, !.email = e, !.serial = nreq + 1,
                  !.pre_applications = applications, !.pre_emails = email_messages]]
    /\ UNCHANGED <<store, ingested, history, call, outside>>

\* Step 0: profile_service.get_profile
GetProfile(p) ==
    /\ req[p].pc = "get_profile"
    /\ Goto(p, IF req[p].user_id \in profiles THEN "check_duplicate" ELSE "create_profile")
    /\ UNCHANGED <<store, ingested, history, nreq, call, outside>>

\* Step 0: get_profile asks for .single() row; for a user without a profile
\* the query has no row and the client library may raise instead of
\* returning no data, which the handler answers with status 500
GetProfileNoRows(p) ==
    /\ req[p].pc = "get_profile"
    /\ req[p].user_id \notin profiles
    /\ req' = [req EXCEPT ![p].pc = "done",
                          ![p].failed = @ \cup {"single_no_rows"},
                          ![p].response = HTTPException(500, "Profile error")]
    /\ UNCHANGED <<store, ingested, history, nreq, call, outside>>

\* Step 0: profile_service.create_default_profile
CreateDefaultProfile(p) ==
    /\ req[p].pc = "create_profile"
    /\ profiles' = profiles \cup {req[p].user_id}
    /\ Goto(p, "check_duplicate")
    /\ UNCHANGED <<applications, email_messages, application_events, ingested, history, nreq, call, outside>>

\* Step 1: check_duplicate_email(generate_email_hash(email_data))
CheckDuplicateEmail(p) ==
    /\ req[p].pc = "check_duplicate"
    /\ \E existing_email \in check_duplicate_email(HashOf[req[p].email]) :
          req' = [req EXCEPT
                    ![p].existing_email = existing_email,
                    ![p].pc = IF existing_email # NoEmailRow
                                 /\ existing_email.application_id # NoApp
                              THEN "get_application"
                              ELSE "gate"]
    /\ UNCHANGED <<store, ingested, history, nreq, call, outside>>

\* duplicate path: parse, get_application_by_id, decide what to update
DupGetApplication(p) ==
    /\ req[p].pc = "get_application"
    /\ LET parsed == Parsed[req[p].email]
           existing_app ==
               get_application_by_id(req[p].existing_email.application_id, req[p].user_id)
           update_kwargs == duplicate_update_kwargs(parsed, existing_app)
       IN  req' = [req EXCEPT
                     ![p].parsed = parsed,
                     ![p].existing_app = existing_app,
                     ![p].update_kwargs = update_kwargs,
                     ![p].pc = IF update_kwargs # NoKwargs THEN "update_application" ELSE "done",
                     ![p].response =
                        IF update_kwargs # NoKwargs THEN NoResponse
                        ELSE IngestResponse(TRUE, req[p].existing_email.application_id,
                                "Duplicate email detected, using existing application", TRUE)]
    /\ UNCHANGED <<store, ingested, history, nreq, call, outside>>

\* duplicate path: update_application
DupUpdateApplication(p) ==
    /\ req[p].pc = "update_application"
    /\ applications' = update_application(req[p].existing_email.application_id,
                                          req[p].user_id, req[p].update_kwargs)
    /\ Respond(p, IngestResponse(TRUE, req[p].existing_email.application_id,
                    "Duplicate email detected, application updated with latest info", TRUE))
    /\ UNCHANGED <<profiles, email_messages, application_events, ingested, history, nreq, call, outside>>

\* variant of the gate that keeps the email it turns away, as an unlinked
\* EmailRecord; C7 does not hold of it
RelevanceGateStoring(p) ==
    /\ req[p].pc = "gate"
    /\ \E ai \in AIOutcomes :
          LET is_job_email == is_job_application(req[p].email, ai)
              parsed == Parsed[req[p].email]
          IN  IF ~is_job_email
              THEN /\ req' = [req EXCEPT
                             ![p].is_job_email = "False",
                             ![p].pc = "done",
                             ![p].response = IngestResponse(FALSE, NoApp,
                                "This email does not appear to be a job application email.",
                                FALSE)]
                   /\ email_messages' =
                         Append(email_messages, store_email_message(req[p].email, NoApp))
              ELSE /\ req' = [req EXCEPT
                             ![p].is_job_email = "True",
                             ![p].parsed = parsed,
                             ![p].pc = IF insufficient_data(parsed)
                                       THEN "store_unlinked"
                                       ELSE "lookup_application"]
                   /\ UNCHANGED email_messages
    /\ UNCHANGED <<profiles, applications, application_events, ingested, history, nreq, call, outside>>

\* Steps 2 and 3: the relevance gate, the extraction and its validation
RelevanceGate(p) ==
    /\ req[p].pc = "gate"
    /\ \E ai \in AIOutcomes :
          LET is_job_email == is_job_application(req[p].email, ai)
              parsed == Parsed[req[p].email]
          IN  IF ~is_job_email
              THEN req' = [req EXCEPT
                          ![p].is_job_email = "False",
                          ![p].pc = "done",
                          ![p].response = IngestResponse(FALSE, NoApp,
                             "This email does not appear to be a job application email.",
                             FALSE)]
              ELSE req' = [req EXCEPT
                          ![p].is_job_email = "True",
                          ![p].parsed = parsed,
                          ![p].pc = IF insufficient_data(parsed)
                                    THEN "store_unlinked"
                                    ELSE "lookup_application"]
    /\ UNCHANGED <<store, ingested, history, nreq, call, outside>>

\* Step 3: store_email_message(email_data, application_id=None)
StoreUnlinkedEmail(p) ==
    /\ req[p].pc = "store_unlinked"
    /\ email_messages' =
          Append(email_messages, store_email_message(req[p].email, NoApp))
    /\ Respond(p, IngestResponse(FALSE, NoApp,
                    "Could not extract sufficient information from email.", FALSE))
    /\ UNCHANGED <<profiles, applications, application_events, ingested, history, nreq, call, outside>>

\* variant that goes on to the insert whatever the query returns; C30 does
\* not hold of it
LookupExistingApplicationUnchecked(p) ==
    /\ req[p].pc = "lookup_application"
    /\ req' = [req EXCEPT ![p].pc = "create_application"]
    /\ UNCHANGED <<store, ingested, history, nreq, call, outside>>

\* Step 5: the existing-application check
LookupExistingApplication(p) ==
    /\ req[p].pc = "lookup_application"
    /\ LET found == existing_applications(req[p].user_id, req[p].parsed.company,
                                          req[p].parsed.position)
           racing == {q \in Procs \ {p} :
                        /\ req[q].pc = "create_application"
                        /\ req[q].user_id = req[p].user_id
                        /\ req[q].parsed.company = req[p].parsed.company
                        /\ req[q].parsed.position = req[p].parsed.position}
       IN  IF found = {}
           THEN req' = [req EXCEPT
                          ![p].pc = "create_application",
                          ![p].raced = IF racing = {} THEN 0
                                       ELSE req[CHOOSE q \in racing : TRUE].serial]
           ELSE \E existing_app \in found :
                   Respond(p, IngestResponse(TRUE, existing_app.id,
                       "This application has already been tracked. Company: "
                       \o req[p].parsed.company \o ", Position: " \o req[p].parsed.position,
                       TRUE))
    /\ UNCHANGED <<store, ingested, history, nreq, call, outside>>

\* variant of the insert under a unique constraint on (user_id, company,
\* position), the conflict answered as a duplicate; C3 does not hold of it
CreateApplicationUnique(p) ==
    /\ req[p].pc = "create_application"
    /\ LET parsed == req[p].parsed
           found == existing_applications(req[p].user_id, parsed.company, parsed.position)
           application ==
               create_application(req[p].user_id, parsed.company, parsed.position,
                   normalize_status(parsed.status),
                   "Auto-created from email. Confidence: " \o ConfStr(parsed.confidence))
       IN  IF found # {}
           THEN /\ \E existing_app \in found :
                      Respond(p, IngestResponse(TRUE, existing_app.id,
                          "This application has already been tracked. Company: "
                          \o parsed.company \o ", Position: " \o parsed.position, TRUE))
                /\ UNCHANGED <<applications, ingested>>
           ELSE /\ applications' = Append(applications, application)
                /\ ingested' = ingested \cup {application.id}
                /\ req' = [req EXCEPT ![p].pc = "store_email",
                                      ![p].application_id = application.id,
                                      ![p].created = application.id]
    /\ UNCHANGED <<profiles, email_messages, application_events, history, nreq, call, outside>>

\* Step 6: normalize the status and create_application
CreateApplication(p) ==
    /\ req[p].pc = "create_application"
    /\ LET parsed == req[p].parsed
           application ==
               create_application(req[p].user_id, parsed.company, parsed.position,
                   normalize_status(parsed.status),
                   "Auto-created from email. Confidence: " \o ConfStr(parsed.confidence))
       IN  /\ applications' = Append(applications, application)
           /\ ingested' = ingested \cup {application.id}
           /\ req' = [req EXCEPT ![p].pc = "store_email",
                                 ![p].application_id = application.id,
                                 ![p].created = application.id]
    /\ UNCHANGED <<profiles, email_messages, application_events, history, nreq, call, outside>>

\* "Step 5: Store email message linked to application", and the response
StoreLinkedEmail(p) ==
    /\ req[p].pc = "store_email"
    /\ email_messages' =
          Append(email_messages,
                 store_email_message(req[p].email, req[p].application_id))
    /\ Respond(p, IngestResponse(TRUE, req[p].application_id,
                    "Application created successfully from email (confidence: "
                    \o ConfStr(req[p].parsed.confidence) \o ")", FALSE))
    /\ UNCHANGED <<profiles, applications, application_events, ingested, history, nreq, call, outside>>

\* the response is sent; the process is free for the next request
Return(p) ==
    /\ req[p].pc = "done"
    /\ history' = [history EXCEPT ![req[p].user_id][req[p].email] =
                      [count |-> @.count + 1,
                       first |-> IF @.count = 0 THEN req[p].response ELSE @.first]]
    /\ req' = [req EXCEPT ![p] = IdleReq]
    /\ UNCHANGED <<store, ingested, nreq, call, outside>>

Step(p) ==
    \/ GetProfile(p)
    \/ GetProfileNoRows(p)
    \/ CreateDefaultProfile(p)
    \/ CheckDuplicateEmail(p)
    \/ DupGetApplication(p)
    \/ DupUpdateApplication(p)
    \/ RelevanceGate(p)
    \/ StoreUnlinkedEmail(p)
    \/ LookupExistingApplication(p)
    \/ CreateApplication(p)
    \/ StoreLinkedEmail(p)
    \/ Return(p)

AllIdle == \A q \in Procs : req[q].pc = "idle"

(***************************************************************************)
(* Spec: ingestion requests handled one after the other.                   *)
(***************************************************************************)
Next ==
    \/ \E u \in Users, e \in EmailIds : AllIdle /\ IngestEmail(1, u, e)
    \/ \E p \in Procs : Step(p)

Spec == Init /\ [][Next]_vars

(***************************************************************************)
(* SpecRace: requests of two server processes interleave at the store.     *)
(***************************************************************************)
\* the emails of the concurrent requests: 1 and 3 resolve to one (company,
\* position) under different fingerprints, 2 has the fingerprint of 1, 5
\* has nothing to extract
NextRace ==
    \/ \E p \in Procs, u \in Users, e \in {1, 2, 3, 5} :
          nreq < MaxRaceRequests /\ IngestEmail(p, u, e)
    \/ \E p \in Procs : Step(p)

SpecRace == Init /\ [][NextRace]_vars

(***************************************************************************)
(* Store calls that raise.  A call that raises has written nothing.  What   *)
(* the handler does with the exception is the except clause around the     *)
(* call, or none: the exception then leaves the handler and the request     *)
(* ends with status 500.                                                    *)
(***************************************************************************)
Raise(p, store_call, response) ==
    req' = [req EXCEPT ![p].pc = "done", ![p].failed = @ \cup {store_call},
                       ![p].response = response]

\* lines 91-106: except Exception -> HTTPException(500, "Profile error: ...")
GetProfileFails(p) ==
    /\ req[p].pc = "get_profile"
    /\ Raise(p, "get_profile", HTTPException(500, "Profile error"))
    /\ UNCHANGED <<store, ingested, history, nreq, call, outside>>

CreateDefaultProfileFails(p) ==
    /\ req[p].pc = "create_profile"
    /\ Raise(p, "create_profile", HTTPException(500, "Profile error"))
    /\ UNCHANGED <<store, ingested, history, nreq, call, outside>>

\* line 110: no try around check_duplicate_email
CheckDuplicateEmailFails(p) ==
    /\ req[p].pc = "check_duplicate"
    /\ Raise(p, "check_duplicate", HTTPException(500, "Internal Server Error"))
    /\ UNCHANGED <<store, ingested, history, nreq, call, outside>>

\* line 123: no try around get_application_by_id
DupGetApplicationFails(p) ==
    /\ req[p].pc = "get_application"
    /\ Raise(p, "get_application", HTTPException(500, "Internal Server Error"))
    /\ UNCHANGED <<store, ingested, history, nreq, call, outside>>

\* lines 151-167: except Exception -> the duplicate response, "(update failed)"
DupUpdateApplicationFails(p) ==
    /\ req[p].pc = "update_application"
    /\ Raise(p, "update_application",
             IngestResponse(TRUE, req[p].existing_email.application_id,
                "Duplicate email detected, using existing application (update failed)",
                TRUE))
    /\ UNCHANGED <<store, ingested, history, nreq, call, outside>>

\* lines 221-224: no try around store_email_message
StoreUnlinkedEmailFails(p) ==
    /\ req[p].pc = "store_unlinked"
    /\ Raise(p, "store_unlinked", HTTPException(500, "Internal Server Error"))
    /\ UNCHANGED <<store, ingested, history, nreq, call, outside>>

\* lines 271-273: except Exception -> "Continue with creation if duplicate
\* check fails"
LookupExistingApplicationFails(p) ==
    /\ req[p].pc = "lookup_application"
    /\ req' = [req EXCEPT ![p].pc = "create_application",
                          ![p].failed = @ \cup {"lookup_application"}]
    /\ UNCHANGED <<store, ingested, history, nreq, call, outside>>

\* variant that keeps the email of the failed request as an unlinked
\* EmailRecord; C15 does not hold of it
CreateApplicationFailsStoring(p) ==
    /\ req[p].pc = "create_application"
    /\ Raise(p, "create_application", HTTPException(500, "Failed to create application"))
    /\ email_messages' = Append(email_messages, store_email_message(req[p].email, NoApp))
    /\ UNCHANGED <<profiles, applications, application_events, ingested, history, nreq, call, outside>>

\* lines 338-345: except Exception -> HTTPException(500, "Failed to create
\* application: ...")
CreateApplicationFails(p) ==
    /\ req[p].pc = "create_application"
    /\ Raise(p, "create_application", HTTPException(500, "Failed to create application"))
    /\ UNCHANGED <<store, ingested, history, nreq, call, outside>>

\* variant in which the failed insert of the EmailRecord fails the request and
\* takes the Application back; C12 does not hold of it
StoreLinkedEmailFailsFatal(p) ==
    /\ req[p].pc = "store_email"
    /\ Raise(p, "store_email", HTTPException(500, "Internal Server Error"))
    /\ applications' = SubSeq(applications, 1, Len(applications) - 1)
    /\ UNCHANGED <<profiles, email_messages, application_events, ingested, history, nreq, call, outside>>

\* lines 360-368: except Exception -> logged, the response is the one of success
StoreLinkedEmailFails(p) ==
    /\ req[p].pc = "store_email"
    /\ Raise(p, "store_email",
             IngestResponse(TRUE, req[p].application_id,
                "Application created successfully from email (confidence: "
                \o ConfStr(req[p].parsed.confidence) \o ")", FALSE))
    /\ UNCHANGED <<store, ingested, history, nreq, call, outside>>

StepFails(p) ==
    \/ GetProfileFails(p)
    \/ CreateDefaultProfileFails(p)
    \/ CheckDuplicateEmailFails(p)
    \/ DupGetApplicationFails(p)
    \/ DupUpdateApplicationFails(p)
    \/ StoreUnlinkedEmailFails(p)
    \/ LookupExistingApplicationFails(p)
    \/ CreateApplicationFails(p)
    \/ StoreLinkedEmailFails(p)

(***************************************************************************)
(* SpecFail: ingestion requests one after the other, over a store whose     *)
(* calls may raise.                                                         *)
(***************************************************************************)
NextFail ==
    \/ \E u \in Users, e \in EmailIds :
          AllIdle /\ nreq < MaxFailRequests /\ IngestEmail(1, u, e)
    \/ \E p \in Procs : Step(p)
    \/ \E p \in Procs : StepFails(p)

SpecFail == Init /\ [][NextFail]_vars

(***************************************************************************)
(* The applications and events API (app/routers/applications.py,           *)
(* app/routers/events.py), one action per call.                            *)
(***************************************************************************)
\* ApplicationUpdate bodies of PATCH /applications/{id}
ApiUpdates ==
    {[status |-> "offer", notes |-> None, source_url |-> None],
     [status |-> None, notes |-> "Found via LinkedIn", source_url |-> None]}

\* EventCreate bodies of POST /applications/{id}/events
ApiEvents ==
    {[event_type |-> "phone_screen", status |-> "interviewing"],
     [event_type |-> "note", status |-> None]}

\* PATCH /applications/{application_id}: 404 when no row has the id
ApiUpdateApplication(u, application_id, data) ==
    /\ AllIdle
    /\ nreq < MaxRequests
    /\ nreq' = nreq + 1
    /\ applications' = update_application(application_id, u, data)
    /\ UNCHANGED <<profiles, email_messages, application_events, req, ingested, history, call, outside>>

\* POST /applications/{application_id}/events: 404 when no row has the id,
\* else the event is inserted and a given status is written to the application
ApiCreateEvent(u, application_id, data) ==
    /\ AllIdle
    /\ nreq < MaxRequests
    /\ nreq' = nreq + 1
    /\ IF get_application_by_id(application_id, u) = NoAppRow
       THEN UNCHANGED <<applications, application_events>>
       ELSE /\ application_events' =
                 Append(application_events,
                        [application_id |-> application_id, event_type |-> data.event_type,
                         status |-> data.status])
            /\ applications' =
                 IF Truthy(data.status)
                 THEN update_application(application_id, u,
                         [status |-> data.status, notes |-> None, source_url |-> None])
                 ELSE applications
    /\ UNCHANGED <<profiles, email_messages, req, ingested, history, call, outside>>

(***************************************************************************)
(* SpecApi: ingestion requests and API calls, one after the other.         *)
(***************************************************************************)
NextApi ==
    \/ \E u \in Users, e \in EmailIds : AllIdle /\ IngestEmail(1, u, e)
    \/ \E p \in Procs : Step(p)
    \/ \E u \in Users, id \in 1..(Len(applications) + 1), data \in ApiUpdates :
          ApiUpdateApplication(u, id, data)
    \/ \E u \in Users, id \in 1..(Len(applications) + 1), data \in ApiEvents :
          ApiCreateEvent(u, id, data)

SpecApi == Init /\ [][NextApi]_vars

(***************************************************************************)
(* SpecParse: the pure functions of the pipeline (the status normalization *)
(* of ingest.py, the classifier, the extraction and the confidence score   *)
(* of parsing.py), each applied to an input drawn from a bounded set.      *)
(* A call carries its input in the fields of an EmailIngest and its result *)
(* in the fields of a parse result.                                        *)
(***************************************************************************)
\* the ApplicationStatus values of app/schemas.py
ApplicationStatus ==
    {"wishlist", "applied", "screening", "interviewing", "interview_scheduled",
     "interview_completed", "offer", "offer_received", "rejected", "accepted", "withdrawn"}

\* the keys of status_map
status_map_keys ==
    {"reject", "rejection", "declined", "decline",
     "interview", "interviews", "interview_scheduled", "interview_completed",
     "screening", "screen",
     "offer received", "offer_received", "offeraccepted", "accepted offer", "accepted",
     "applied", "interviewing", "offer", "rejected", "withdrawn", "wishlist"}

ConfidenceFields == {None, "", "Acme"}

ConfidenceStatuses == {None, "", "applied", "Applied", "rejected", "interviewing"}

PendingCall(fn, input) ==
    [fn |-> fn, stage |-> "pending", input |-> input, output |-> NoParsed]

StatusOnly(status) == EmailIngest(None, None, None, None, None, None, status, None, None)

Calls ==
    LET
        \* raw statuses: the vocabulary, spellings of it with other case and
        \* surrounding whitespace, strings outside it, the empty string and None
        StatusInputs ==
            ApplicationStatus \cup status_map_keys
            \cup {" Rejected ", "OFFER", "Interview_Scheduled", "\tscreening\n", "Wishlist",
                  "Offer Received", " withdrawn", "ghosted", "on hold", "hired", "offer  received",
                  "", "   ", None}
        ContentSubjects ==
            {"Application received", "Interview scheduled", "Unfortunately", "Congratulations!",
             "Your Job Offer and next steps", "Phone Screen", "An update: we are not moving"}
        ContentBodies ==
            {None, "", "Thank you", "We'd like to meet", "not moving forward", "pleased to offer",
             "forward with OTHER CANDIDATES; congratulations anyway",
             "A brief chat, then the offer letter", "Initial call and screening",
             "Please complete the technical assessment"}
        ParseInputs ==
            {EmailIngest(sender, subject, text_body, None, parsed_company, parsed_position,
                         parsed_status, None, detected_status) :
                sender \in {"jobs@acme.com", "noreply@greenhouse.io", "nodomain"},
                subject \in {"Application Received - Software Engineer", "Hello"},
                text_body \in {None, "Unfortunately we chose other candidates"},
                parsed_company \in {None, "", "Beta"},
                parsed_position \in {None, "Dev"},
                parsed_status \in {None, "", "screening"},
                detected_status \in {None, "offer"}}
    IN  {PendingCall("normalize_status", StatusOnly(status)) : status \in StatusInputs}
        \cup {PendingCall("detect_status_from_content",
                          EmailIngest(None, subject, text_body, None, None, None, None, None, None)) :
                 subject \in ContentSubjects, text_body \in ContentBodies}
        \cup {PendingCall("parse_job_application_email", input) : input \in ParseInputs}
        \cup {PendingCall("calculate_confidence",
                          EmailIngest(None, None, None, None, company, position, status, None, None)) :
                 company \in ConfidenceFields, position \in ConfidenceFields,
                 status \in ConfidenceStatuses}

(***************************************************************************)
(* The relevance gate with the call to the AI classifier spelled out       *)
(* (EmailParser._is_job_application, detect_job_application_with_ai).      *)
(* Python values are written as their repr: "True", "False", "'false'".    *)
(***************************************************************************)
\* detect_job_application_with_ai: the dictionary of the answer, or None
detect_job_application_with_ai(reply) ==
    IF reply.kind = "json_object"
    THEN [is_none |-> FALSE, is_job_application |-> reply.is_job_application]
    ELSE [is_none |-> TRUE, is_job_application |-> "<absent>"]

\* bool as repr
Repr(b) == IF b THEN "True" ELSE "False"

\* EmailParser._is_job_application: what the method returns
EmailParser_is_job_application(email_data, reply) ==
    LET ai_result == detect_job_application_with_ai(reply)
    IN  IF reply.kind # "no_api_key" /\ ~ai_result.is_none
        THEN IF ai_result.is_job_application = "<absent>"
             THEN "False"
             ELSE ai_result.is_job_application
        ELSE Repr(is_job_by_keywords(email_data))

\* emails for generate_email_hash: senders and subjects that differ in case
\* and surrounding whitespace only or in content, with and without a
\* timestamp, bare or with a body, the add-on's fields and the AI's status
HashInputs ==
    {EmailIngest(sender, subject, rest[1], received_at, rest[2], rest[3], rest[4],
                 rest[5], rest[6]) :
        sender \in {"jobs@acme.com", "Jobs@Acme.com ", "hr@acme.com"},
        subject \in {"Application Received", " Application Received ", "application received"},
        received_at \in {None, "2025-10-13T10:00:00", "2025-10-14T09:00:00"},
        rest \in {<<None, None, None, None, None, None>>,
                  <<"We are pleased to offer", "Beta", "Dev", "screening",
                    "https://beta.example/jobs/1", "offer">>}}

\* the calls of EmailParser._is_job_application and of generate_email_hash
\* (the latter on two emails, as the handler calls it on the emails of two
\* requests)
OtherCalls ==
    LET
        \* what the request to the AI service does: no request without an API key;
        \* the client raises (timeout, connection error); a status other than 200;
        \* status 200 with a body that has no choices, with content that is not JSON,
        \* with JSON that is no object, or with a JSON object whose member
        \* is_job_application is as given ("<absent>": no such member)
        AIReplies ==
            {[kind |-> kind, is_job_application |-> "<absent>"] :
                kind \in {"no_api_key", "timeout", "status_500", "no_choices", "not_json",
                          "json_list", "json_null"}}
            \cup {[kind |-> "json_object", is_job_application |-> value] :
                     value \in {"True", "False", "<absent>", None, "'false'"}}
        GateInputs ==
            {EmailIngest("jobs@acme.com", "Application received", None, None, None, None, None,
                         None, None),
             EmailIngest("promo@deals.com", "50% off trading signals", "A great offer", None,
                         None, None, None, None, None),
             EmailIngest("hr@acme.com", "Hello", "Unfortunately we went another way", None,
                         None, None, None, None, None)}
        PendingGateCall(email_data, reply) ==
            [fn |-> "_is_job_application", stage |-> "pending", input |-> email_data,
             output |-> NoParsed, reply |-> reply, is_job_email |-> "unset"]
        \* generate_email_hash called on two emails, as the handler calls it on the
        \* emails of two requests
        PendingHashCall(first, second) ==
            [fn |-> "generate_email_hash", stage |-> "pending", input |-> first,
             output |-> NoParsed, other |-> second, hashes |-> <<>>]
    IN  {PendingGateCall(email_data, reply) : email_data \in GateInputs, reply \in AIReplies}
        \cup {PendingHashCall(first, second) : first \in HashInputs, second \in HashInputs}

InitParse ==
    /\ InitOutside
    /\ profiles = {}
    /\ applications = <<>>
    /\ email_messages = <<>>
    /\ application_events = <<>>
    /\ req = [p \in Procs |-> IdleReq]
    /\ ingested = {}
    /\ history = [u \in Users |-> [e \in EmailIds |-> [count |-> 0, first |-> NoResponse]]]
    /\ nreq = 0
    /\ call \in Calls \cup OtherCalls

Returns(output) ==
    /\ call' = [call EXCEPT !.stage = "done", !.output = output]
    /\ UNCHANGED <<store, req, ingested, history, nreq, outside>>

\* ingest.py lines 308-315 on the status of a parse result
NormalizeStatus ==
    /\ call.fn = "normalize_status"
    /\ call.stage = "pending"
    /\ Returns([NoParsed EXCEPT !.status = normalize_status(call.input.parsed_status)])

\* the same, on a status that is already normalized
NormalizeAgain ==
    /\ call.fn = "normalize_status"
    /\ call.stage = "done"
    /\ call' = [call EXCEPT !.stage = "again", !.input = StatusOnly(call.output.status),
                            !.output.status = normalize_status(call.output.status)]
    /\ UNCHANGED <<store, req, ingested, history, nreq, outside>>

DetectStatus ==
    /\ call.fn = "detect_status_from_content"
    /\ call.stage = "pending"
    /\ Returns([NoParsed EXCEPT
                  !.status = detect_status_from_content(call.input.subject,
                                                        call.input.text_body)])

ParseEmail ==
    /\ call.fn = "parse_job_application_email"
    /\ call.stage = "pending"
    /\ Returns(parse_job_application_email(call.input))

\* calculate_confidence on the dictionary of company, position and status
CalculateConfidence ==
    /\ call.fn = "calculate_confidence"
    /\ call.stage = "pending"
    /\ Returns([company |-> call.input.parsed_company,
                position |-> call.input.parsed_position,
                status |-> call.input.parsed_status,
                source_url |-> None,
                confidence |-> calculate_confidence(call.input.parsed_company,
                                                    call.input.parsed_position,
                                                    call.input.parsed_status)])

GenerateEmailHash ==
    /\ call.fn = "generate_email_hash"
    /\ call.stage = "pending"
    /\ call' = [call EXCEPT !.stage = "done",
                            !.hashes = <<generate_email_hash(call.input),
                                         generate_email_hash(call.other)>>]
    /\ UNCHANGED <<store, req, ingested, history, nreq, outside>>

IsJobApplication ==
    /\ call.fn = "_is_job_application"
    /\ call.stage = "pending"
    /\ call' = [call EXCEPT !.stage = "done",
                            !.is_job_email =
                                EmailParser_is_job_application(call.input, call.reply)]
    /\ UNCHANGED <<store, req, ingested, history, nreq, outside>>

NextParse ==
    \/ GenerateEmailHash
    \/ IsJobApplication
    \/ NormalizeStatus
    \/ NormalizeAgain
    \/ DetectStatus
    \/ ParseEmail
    \/ CalculateConfidence

SpecParse == InitParse /\ [][NextParse]_vars

(***************************************************************************)
(* Authentication of POST /ingest/email (app/auth.py): the dependencies    *)
(* get_user_id_from_api_key and get_current_user_id_flexible run before    *)
(* the handler, one action per store call.                                 *)
(***************************************************************************)
\* jwt.decode: the payload of the token, or JWTError
jwt_decode(token) ==
    CASE token = "jwt-u1" -> [JWTError |-> FALSE, sub |-> "u1"]
      [] token = "jwt-nosub" -> [JWTError |-> FALSE, sub |-> None]
      [] OTHER -> [JWTError |-> TRUE, sub |-> None]

PostIngestEmailRequest(x_api_key, bearer, e) ==
    [endpoint |-> "POST /ingest/email", stage |-> "get_user_id_from_api_key",
     x_api_key |-> x_api_key, jwt_credentials |-> bearer, email |-> e,
     api_key_user_id |-> None, user_id |-> None, status_code |-> 0, detail |-> "",
     \* history: the requests started, the tables and the time when the request
     \* arrived, and the time of the expiry check
     serial |-> nreq, pre_store |-> store, pre_api_keys |-> api_keys, validated_at |-> 0]

\* raise HTTPException(status_code=401, ...) in a dependency: the handler is not called
Unauthorized(detail) ==
    api' = [api EXCEPT !.stage = "rejected", !.status_code = 401, !.detail = detail]

\* a request arrives with its headers and payload
PostIngestEmail(x_api_key, bearer, e) ==
    /\ api.stage = "idle"
    /\ AllIdle
    /\ nreq < MaxAuthRequests
    /\ api' = PostIngestEmailRequest(x_api_key, bearer, e)
    /\ UNCHANGED <<store, req, ingested, history, nreq, call, api_keys, now, bridge>>

\* get_user_id_from_api_key: no header, no user
GetUserIdFromApiKey ==
    /\ api.stage = "get_user_id_from_api_key"
    /\ api' = [api EXCEPT !.stage = IF Truthy(api.x_api_key) THEN "validate_api_key"
                                                              ELSE "flexible"]
    /\ UNCHANGED <<store, req, ingested, history, nreq, call, api_keys, now, bridge>>

ApiKeyData(api_key) == {row \in api_keys : row.api_key = api_key}

\* validate_api_key that does not look at expires_at
ValidateApiKeyNeverExpires ==
    /\ api.stage = "validate_api_key"
    /\ IF ApiKeyData(api.x_api_key) = {}
       THEN Unauthorized("Invalid API key")
       ELSE api' = [api EXCEPT !.stage = "update_last_used_at", !.validated_at = now]
    /\ UNCHANGED <<store, req, ingested, history, nreq, call, api_keys, now, bridge>>

\* validate_api_key: the row of the key, and the check of expires_at
ValidateApiKey ==
    /\ api.stage = "validate_api_key"
    /\ IF ApiKeyData(api.x_api_key) = {}
       THEN Unauthorized("Invalid API key")
       ELSE LET api_key_data == CHOOSE row \in ApiKeyData(api.x_api_key) : TRUE
            IN  IF api_key_data.expires_at # NoTime /\ api_key_data.expires_at < now
                THEN Unauthorized("API key has expired")
                ELSE api' = [api EXCEPT !.stage = "update_last_used_at",
                                        !.validated_at = now]
    /\ UNCHANGED <<store, req, ingested, history, nreq, call, api_keys, now, bridge>>

\* validate_api_key: the query raises, caught as 401
ValidateApiKeyFails ==
    /\ api.stage = "validate_api_key"
    /\ Unauthorized("Invalid API key")
    /\ UNCHANGED <<store, req, ingested, history, nreq, call, api_keys, now, bridge>>

\* validate_api_key: last_used_at is written and the user of the key returned
UpdateLastUsedAt ==
    /\ api.stage = "update_last_used_at"
    /\ api_keys' = {IF row.api_key = api.x_api_key
                    THEN [row EXCEPT !.last_used_at = now] ELSE row : row \in api_keys}
    /\ api' = [api EXCEPT !.stage = "flexible",
                          !.api_key_user_id =
                              (CHOOSE row \in ApiKeyData(api.x_api_key) : TRUE).user_id]
    /\ UNCHANGED <<store, req, ingested, history, nreq, call, now, bridge>>

\* validate_api_key: the update raises, caught as 401
UpdateLastUsedAtFails ==
    /\ api.stage = "update_last_used_at"
    /\ Unauthorized("Invalid API key")
    /\ UNCHANGED <<store, req, ingested, history, nreq, call, api_keys, now, bridge>>

\* get_current_user_id_flexible: the user of the API key, else the sub claim
\* of the verified token, else 401
GetCurrentUserIdFlexible ==
    /\ api.stage = "flexible"
    /\ IF Truthy(api.api_key_user_id)
       THEN api' = [api EXCEPT !.stage = "authenticated", !.user_id = api.api_key_user_id]
       ELSE IF api.jwt_credentials # None
            THEN LET payload == jwt_decode(api.jwt_credentials)
                 IN  IF payload.JWTError
                     THEN Unauthorized("Invalid authentication credentials")
                     ELSE IF Truthy(payload.sub)
                          THEN api' = [api EXCEPT !.stage = "authenticated",
                                                  !.user_id = payload.sub]
                          ELSE Unauthorized("Authentication required")
            ELSE Unauthorized("Authentication required")
    /\ UNCHANGED <<store, req, ingested, history, nreq, call, api_keys, now, bridge>>

\* the handler is called with the user the dependencies returned
CallIngestEmail ==
    /\ api.endpoint = "POST /ingest/email"
    /\ api.stage = "authenticated"
    /\ nreq = api.serial
    /\ IngestEmail(1, api.user_id, api.email)

\* the response of the handler, or the 401 of a dependency, is sent
SendResponse ==
    /\ \/ api.stage = "rejected"
       \/ api.stage = "authenticated" /\ nreq > api.serial /\ AllIdle
    /\ api' = NoApi
    /\ UNCHANGED <<store, req, ingested, history, nreq, call, api_keys, now, bridge>>

\* time passes
Tick ==
    /\ now < MaxNow
    /\ now' = now + 1
    /\ UNCHANGED <<store, req, ingested, history, nreq, call, api_keys, api, bridge>>

Authenticate ==
    \/ GetUserIdFromApiKey
    \/ ValidateApiKey
    \/ ValidateApiKeyFails
    \/ UpdateLastUsedAt
    \/ UpdateLastUsedAtFails
    \/ GetCurrentUserIdFlexible

(***************************************************************************)
(* SpecAuth: requests to POST /ingest/email with their credentials, one    *)
(* after the other, while time passes.                                     *)
(***************************************************************************)
\* values of the X-API-Key header: absent, empty, the issued keys, a key that
\* was never issued; values of the Authorization header: absent, a token of
\* u1, a token without a sub claim, a token that jwt.decode refuses; the
\* emails of the authenticated requests: 5 and 6
NextAuth ==
    \/ \E x_api_key \in {None, "", "key-u1", "key-u2", "key-unknown"},
          bearer \in {None, "jwt-u1", "jwt-nosub", "jwt-expired"}, e \in {5, 6} :
          PostIngestEmail(x_api_key, bearer, e)
    \/ Authenticate
    \/ CallIngestEmail
    \/ Step(1)
    \/ SendResponse
    \/ Tick

SpecAuth == Init /\ [][NextAuth]_vars

(***************************************************************************)
(* POST /ingest/email/test: test_email_parsing of app/routers/ingest.py.   *)
(***************************************************************************)
\* the dictionary the endpoint returns
TestEmailParsingResponse(u, e, existing_email) ==
    [endpoint |-> "POST /ingest/email/test", stage |-> "responded", user_id |-> u,
     email |-> e, status_code |-> 200, parsed |-> Parsed[e], email_hash |-> HashOf[e],
     would_create_duplicate |-> (existing_email # NoEmailRow),
     existing_application_id |->
         IF existing_email # NoEmailRow THEN existing_email.application_id ELSE NoApp]

\* variant of the endpoint that keeps the email it was shown; C23 does not
\* hold of it
TestEmailParsingStoring(u, e) ==
    /\ api.stage = "idle"
    /\ \E existing_email \in check_duplicate_email(HashOf[e]) :
          api' = TestEmailParsingResponse(u, e, existing_email)
    /\ email_messages' = Append(email_messages, store_email_message(e, NoApp))
    /\ UNCHANGED <<profiles, applications, application_events, req, ingested, history,
                   nreq, call, api_keys, now, bridge>>

\* the endpoint: parse, hash, one select on email_messages
TestEmailParsing(u, e) ==
    /\ api.stage = "idle"
    /\ \E existing_email \in check_duplicate_email(HashOf[e]) :
          api' = TestEmailParsingResponse(u, e, existing_email)
    /\ UNCHANGED <<store, req, ingested, history, nreq, call, api_keys, now, bridge>>

\* the select of check_duplicate_email raises: no handler catches it
TestEmailParsingFails(u, e) ==
    /\ api.stage = "idle"
    /\ api' = [endpoint |-> "POST /ingest/email/test", stage |-> "responded",
               user_id |-> u, email |-> e, status_code |-> 500, parsed |-> NoParsed,
               email_hash |-> <<>>, would_create_duplicate |-> FALSE,
               existing_application_id |-> NoApp]
    /\ UNCHANGED <<store, req, ingested, history, nreq, call, api_keys, now, bridge>>

\* the response of the preview is sent
SendPreview ==
    /\ api.endpoint = "POST /ingest/email/test"
    /\ api.stage = "responded"
    /\ api' = NoApi
    /\ UNCHANGED <<store, req, ingested, history, nreq, call, api_keys, now, bridge>>

(***************************************************************************)
(* SpecPreview: ingestion requests, one after the other, and previews at   *)
(* any moment of them.                                                     *)
(***************************************************************************)
\* the emails ingested and previewed: 2 has the fingerprint of 1, 5 is stored
\* without an application
PreviewEmails == {1, 2, 5}

NextPreview ==
    \/ \E u \in Users, e \in PreviewEmails :
          AllIdle /\ nreq < MaxPreviewRequests /\ IngestEmail(1, u, e)
    \/ Step(1)
    \/ \E u \in Users, e \in PreviewEmails : TestEmailParsing(u, e)
    \/ \E u \in Users, e \in PreviewEmails : TestEmailParsingFails(u, e)
    \/ SendPreview

SpecPreview == Init /\ [][NextPreview]_vars

(***************************************************************************)
(* The applications and events API with the caller and the answer of each  *)
(* call (app/routers/applications.py, app/routers/events.py,               *)
(* app/services/applications.py), one action per call.                     *)
(***************************************************************************)
\* the answer to a call of user u for application application_id
ApiResponse(endpoint, u, application_id, status_code) ==
    [endpoint |-> endpoint, stage |-> "responded", user_id |-> u,
     application_id |-> application_id, status_code |-> status_code,
     \* history: the tables before the call
     pre_applications |-> applications, pre_events |-> application_events]

\* GET /applications/{application_id}
GetApplication(u, application_id) ==
    /\ api' = ApiResponse("GET /applications/{application_id}", u, application_id,
                          IF get_application_by_id(application_id, u) = NoAppRow
                          THEN 404 ELSE 200)
    /\ UNCHANGED <<store, api_keys, now, bridge>>

\* PATCH /applications/{application_id}
PatchApplication(u, application_id, data) ==
    /\ applications' = update_application(application_id, u, data)
    /\ api' = ApiResponse("PATCH /applications/{application_id}", u, application_id,
                          IF get_application_by_id(application_id, u) = NoAppRow
                          THEN 404 ELSE 200)
    /\ UNCHANGED <<profiles, email_messages, application_events, api_keys, now, bridge>>

\* delete().eq("id", application_id): the rows that stay; the events and
\* emails of the application go with it (ON DELETE CASCADE)
delete_application(application_id, user_id) ==
    SelectSeq(applications, LAMBDA row : row.id # application_id)

\* DELETE /applications/{application_id}
DeleteApplication(u, application_id) ==
    /\ applications' = delete_application(application_id, u)
    /\ application_events' =
          SelectSeq(application_events, LAMBDA row : row.application_id # application_id)
    /\ email_messages' =
          SelectSeq(email_messages, LAMBDA row : row.application_id # application_id)
    /\ api' = ApiResponse("DELETE /applications/{application_id}", u, application_id,
                          IF get_application_by_id(application_id, u) = NoAppRow
                          THEN 404 ELSE 204)
    /\ UNCHANGED <<profiles, api_keys, now, bridge>>

\* POST /applications/{application_id}/events
CreateApplicationEvent(u, application_id, data) ==
    /\ IF \A row \in Rows(applications) : row.id # application_id
       THEN /\ api' = ApiResponse("POST /applications/{application_id}/events", u,
                                  application_id, 404)
            /\ UNCHANGED <<applications, application_events>>
       ELSE /\ application_events' =
                 Append(application_events,
                        [application_id |-> application_id, event_type |-> data.event_type,
                         status |-> data.status])
            /\ applications' =
                 IF Truthy(data.status)
                 THEN [i \in DOMAIN applications |->
                          IF applications[i].id = application_id
                          THEN [applications[i] EXCEPT !.status = data.status]
                          ELSE applications[i]]
                 ELSE applications
            /\ api' = ApiResponse("POST /applications/{application_id}/events", u,
                                  application_id, 201)
    /\ UNCHANGED <<profiles, email_messages, api_keys, now, bridge>>

\* one call of the API by an authenticated user
ApiCall(u, application_id) ==
    /\ api.stage = "idle"
    /\ AllIdle
    /\ nreq < MaxTenantRequests
    /\ nreq' = nreq + 1
    /\ \/ GetApplication(u, application_id)
       \/ \E data \in ApiUpdates : PatchApplication(u, application_id, data)
       \/ DeleteApplication(u, application_id)
       \/ \E data \in ApiEvents : CreateApplicationEvent(u, application_id, data)
    /\ UNCHANGED <<req, ingested, history, call>>

\* the answer is sent
SendApiResponse ==
    /\ api.stage = "responded"
    /\ api' = NoApi
    /\ UNCHANGED <<store, req, ingested, history, nreq, call, api_keys, now, bridge>>

(***************************************************************************)
(* SpecTenant: ingestion requests and API calls of two users, one after    *)
(* the other; rows are inserted as long as none was deleted.               *)
(***************************************************************************)
\* (ids are the positions of the rows as long as no row was deleted)
NextTenant ==
    \/ \E u \in Users, e \in {1, 3} :
          /\ api.stage = "idle" /\ AllIdle
          /\ \A i \in DOMAIN applications : applications[i].id = i
          /\ nreq < MaxTenantRequests
          /\ IngestEmail(1, u, e)
    \/ api.stage = "idle" /\ Step(1)
    \/ \E u \in Users, application_id \in 1..MaxTenantRequests : ApiCall(u, application_id)
    \/ SendApiResponse

SpecTenant == Init /\ [][NextTenant]_vars

(***************************************************************************)
(* POST /applications (create_application of app/routers/applications.py)  *)
(* and the plan limits of app/services/subscription.py.                    *)
(***************************************************************************)
\* the value of features.max_applications of the plan of the model
max_applications == 2

\* tables subscription_plans and user_subscriptions: u1 has no subscription
\* and gets the free plan, u2 has the plan without limit
subscription_plans ==
    [free |-> [unlimited_applications |-> FALSE, max_applications |-> max_applications],
     pro |-> [unlimited_applications |-> TRUE, max_applications |-> max_applications]]

get_user_subscription(user_id) ==
    IF user_id = "u2" THEN subscription_plans.pro ELSE subscription_plans.free

get_user_application_count(user_id) ==
    Cardinality({i \in DOMAIN applications : applications[i].user_id = user_id})

\* SubscriptionService.can_create_application; no handler calls it
can_create_application(user_id) ==
    LET features == get_user_subscription(user_id)
    IN  \/ features.unlimited_applications
        \/ get_user_application_count(user_id) < features.max_applications

\* ApplicationCreate bodies of POST /applications
ApplicationCreates ==
    {[company |-> company, position |-> position, status |-> "applied",
      source_url |-> None, notes |-> None] :
        company \in {"Acme", "Beta"}, position \in {"Engineer", "Dev"}}

\* POST /applications: the row is inserted and returned with status 201
PostApplication(u, data) ==
    /\ api.stage = "idle"
    /\ nreq < MaxLimitRequests
    /\ nreq' = nreq + 1
    /\ applications' =
          Append(applications,
                 [create_application(u, data.company, data.position, data.status,
                                     data.notes) EXCEPT !.source_url = data.source_url])
    /\ api' = ApiResponse("POST /applications", u, Len(applications) + 1, 201)
    /\ UNCHANGED <<profiles, email_messages, application_events, req, ingested, history,
                   call, api_keys, now, bridge>>

\* POST /applications: the insert raises, which no handler catches
PostApplicationFails(u, data) ==
    /\ api.stage = "idle"
    /\ nreq < MaxLimitRequests
    /\ nreq' = nreq + 1
    /\ api' = ApiResponse("POST /applications", u, NoApp, 500)
    /\ UNCHANGED <<store, req, ingested, history, call, api_keys, now, bridge>>

(***************************************************************************)
(* SpecLimit: create requests of a user on the limited plan and of a user  *)
(* on the plan without limit.                                              *)
(***************************************************************************)
NextLimit ==
    \/ \E u \in Users, data \in ApplicationCreates : PostApplication(u, data)
    \/ \E u \in Users, data \in ApplicationCreates : PostApplicationFails(u, data)
    \/ SendApiResponse

SpecLimit == Init /\ [][NextLimit]_vars

(***************************************************************************)
(* The auth bridge (auth-bridge/main.py): sessions of the Gmail add-on.    *)
(* Each handler runs without suspension and is one action.  Times are in   *)
(* units of the model; the time to live of a session is set by the         *)
(* environment, and the limit and window of the rate limiter are scaled    *)
(* with it (20 requests in 60 seconds in the source).                      *)
(***************************************************************************)
SESSION_TTL_SECONDS == 1

max_requests == 2

window_seconds == 2

\* the handles a request may name: 0 is never issued
Handles == 0..MaxSessions

\* the function f without the arguments in the set gone
Without(f, gone) == [h \in DOMAIN f \ gone |-> f[h]]

\* the function f with value v at handle h
With(f, h, v) == [k \in DOMAIN f \cup {h} |-> IF k = h THEN v ELSE f[k]]

\* cleanup_expired_sessions at time t: the handles it removes
Expired(t) == {h \in DOMAIN sessions : sessions[h].expires_at < t}

\* the timestamps of handle h within the window at time t
RecentRequests(store_after_cleanup, h, t) ==
    IF h \in DOMAIN store_after_cleanup
    THEN SelectSeq(store_after_cleanup[h], LAMBDA ts : t - ts < window_seconds)
    ELSE <<>>

BridgeResponse(endpoint, handle, status_code, access_token) ==
    [endpoint |-> endpoint, stage |-> "responded", handle |-> handle,
     status_code |-> status_code, access_token |-> access_token,
     \* history: the time when the request arrived and the time of the answer
     arrived |-> now, at |-> now']

\* POST /session/start; secrets.token_urlsafe(32) is taken to return a handle
\* that was never returned before
StartSession(u) ==
    /\ api.stage = "idle"
    /\ Len(issued) < MaxSessions
    /\ LET session_handle == Len(issued) + 1
           session == [user_id |-> u, access_token |-> "token-" \o u,
                       expires_at |-> now + SESSION_TTL_SECONDS, created_at |-> now]
       IN  /\ sessions' = With(Without(sessions, Expired(now)), session_handle, session)
           /\ rate_limit_store' = Without(rate_limit_store, Expired(now))
           /\ issued' = Append(issued, session)
           /\ now' = now
           /\ api' = BridgeResponse("POST /session/start", session_handle, 200, "")
    /\ UNCHANGED <<store, req, ingested, history, nreq, call, api_keys, ended>>

\* variant of end_session that answers without removing the session; C28
\* does not hold of it
EndSessionKeeps(handle) ==
    /\ api.stage = "idle"
    /\ now' = now
    /\ api' = BridgeResponse("DELETE /session", handle,
                             IF handle \in DOMAIN sessions THEN 200 ELSE 404, "")
    /\ ended' = IF handle \in DOMAIN sessions THEN ended \cup {handle} ELSE ended
    /\ UNCHANGED <<store, req, ingested, history, nreq, call, api_keys, sessions,
                   rate_limit_store, issued>>

\* DELETE /session
EndSession(handle) ==
    /\ api.stage = "idle"
    /\ now' = now
    /\ api' = BridgeResponse("DELETE /session", handle,
                             IF handle \in DOMAIN sessions THEN 200 ELSE 404, "")
    /\ sessions' = Without(sessions, {handle})
    /\ rate_limit_store' =
          IF handle \in DOMAIN sessions THEN Without(rate_limit_store, {handle})
          ELSE rate_limit_store
    /\ ended' = IF handle \in DOMAIN sessions THEN ended \cup {handle} ELSE ended
    /\ UNCHANGED <<store, req, ingested, history, nreq, call, api_keys, issued>>

\* GET /token; elapsed is the time that passes between the cleanup and the
\* check of expires_at
GetToken(handle, elapsed) ==
    /\ api.stage = "idle"
    /\ now + elapsed <= MaxNow
    /\ now' = now + elapsed
    /\ LET cleaned == Without(sessions, Expired(now))
           limits == Without(rate_limit_store, Expired(now))
           recent == RecentRequests(limits, handle, now)
       IN  IF handle \notin DOMAIN cleaned
           THEN /\ sessions' = cleaned
                /\ rate_limit_store' = limits
                /\ api' = BridgeResponse("GET /token", handle, 401, "")
           ELSE IF Len(recent) >= max_requests
           THEN /\ sessions' = cleaned
                /\ rate_limit_store' = With(limits, handle, recent)
                /\ api' = BridgeResponse("GET /token", handle, 429, "")
           ELSE /\ rate_limit_store' = With(limits, handle, Append(recent, now))
                /\ IF cleaned[handle].expires_at < now + elapsed
                   THEN /\ sessions' = Without(cleaned, {handle})
                        /\ api' = BridgeResponse("GET /token", handle, 401, "")
                   ELSE /\ sessions' = cleaned
                        /\ api' = BridgeResponse("GET /token", handle, 200,
                                                 cleaned[handle].access_token)
    /\ UNCHANGED <<store, req, ingested, history, nreq, call, api_keys, issued, ended>>

\* GET /health
HealthCheck ==
    /\ api.stage = "idle"
    /\ Expired(now) # {}
    /\ sessions' = Without(sessions, Expired(now))
    /\ rate_limit_store' = Without(rate_limit_store, Expired(now))
    /\ UNCHANGED <<store, req, ingested, history, nreq, call, api_keys, now, api, issued,
                   ended>>

(***************************************************************************)
(* SpecBridge: calls of the auth bridge, one after the other, while time   *)
(* passes.                                                                 *)
(***************************************************************************)
NextBridge ==
    \/ \E u \in Users : StartSession(u)
    \/ \E handle \in Handles, elapsed \in {0, 1} : GetToken(handle, elapsed)
    \/ \E handle \in Handles : EndSession(handle)
    \/ HealthCheck
    \/ SendApiResponse
    \/ Tick

SpecBridge == Init /\ [][NextBridge]_vars

(***************************************************************************)
(* Properties.                                                             *)
(***************************************************************************)
\* the response of a request that inserted an Application
Created(response) ==
    response.success /\ ~response.duplicate /\ response.application_id # NoApp

EmailsWithHash(email_hash) ==
    {i \in DOMAIN email_messages : email_messages[i].email_hash = email_hash}

\* the applications of the request's user, as of the start of the request,
\* whose company and position are the extracted ones
MatchesExisting(r) ==
    {a \in Rows(r.pre_applications) :
        /\ a.user_id = r.user_id
        /\ a.company = r.parsed.company
        /\ a.position = r.parsed.position}

\* the request got to extract a company and a position
Extracted(r) == r.parsed # NoParsed /\ Truthy(r.parsed.company) /\ Truthy(r.parsed.position)

\* the extraction of email e yields no company or no position
NoCompanyOrNoPosition(e) == ~Truthy(Parsed[e].company) \/ ~Truthy(Parsed[e].position)

LinkedDuplicate(r) == r.existing_email.application_id # NoApp

\* C1: Idempotence of POST /ingest/email.  When the first ingestion of a
\* payload by a user created an Application, the second ingestion of the same
\* payload by that user creates no Application, leaves at most one EmailRecord
\* with the payload's fingerprint, and answers duplicate=true with the id the
\* first ingestion created.
C1_Idempotence ==
    \A p \in Procs :
        (/\ req[p].pc = "done"
         /\ history[req[p].user_id][req[p].email].count = 1
         /\ Created(history[req[p].user_id][req[p].email].first))
        => /\ req[p].created = NoApp
           /\ Cardinality(EmailsWithHash(HashOf[req[p].email])) <= 1
           /\ req[p].response.duplicate
           /\ req[p].response.application_id
                 = history[req[p].user_id][req[p].email].first.application_id

\* At most one Application created by ingestion per (user, company, position).
AtMostOneIngestedPerKey ==
    \A i, j \in DOMAIN applications :
        (/\ i # j
         /\ applications[i].id \in ingested
         /\ applications[j].id \in ingested
         /\ applications[i].user_id = applications[j].user_id
         /\ applications[i].company = applications[j].company)
        => applications[i].position # applications[j].position

\* the request inserted nothing and answered with the id of one of the
\* matching applications, success=true, duplicate=true
AnsweredExisting(r) ==
    /\ r.created = NoApp
    /\ Len(applications) = Len(r.pre_applications)
    /\ r.response.success
    /\ r.response.duplicate
    /\ r.response.application_id \in {a.id : a \in MatchesExisting(r)}

RacedOnCreate(p, q) ==
    /\ p # q
    /\ req[q].raced # 0
    /\ req[q].raced = req[p].serial
    /\ req[p].user_id = req[q].user_id
    /\ HashOf[req[p].email] # HashOf[req[q].email]
    /\ req[p].pc \in {"store_email", "done"}
    /\ req[q].pc \in {"store_email", "done"}

\* C3: Race on create.  When two requests of one user for the same new
\* (company, position), with different fingerprints, both run the existence
\* lookup before either inserts, both insert: the store then holds two
\* Applications of that user with that company and position.
C3_RaceOnCreate ==
    \A p, q \in Procs :
        RacedOnCreate(p, q)
        => /\ req[p].created # NoApp
           /\ req[q].created # NoApp
           /\ \E i, j \in DOMAIN applications :
                 /\ i # j
                 /\ applications[i].id = req[p].created
                 /\ applications[j].id = req[q].created
                 /\ applications[i].id # applications[j].id
                 /\ applications[i].user_id = req[p].user_id
                 /\ applications[j].user_id = req[p].user_id
                 /\ applications[i].company = applications[j].company
                 /\ applications[i].position = applications[j].position

C3_Witness ==
    \E p, q \in Procs :
        /\ RacedOnCreate(p, q)
        /\ req[p].pc = "done"
        /\ req[q].pc = "done"
        /\ Cardinality({i \in DOMAIN applications :
                           /\ applications[i].user_id = req[p].user_id
                           /\ applications[i].company = req[p].parsed.company
                           /\ applications[i].position = req[p].parsed.position}) = 2

\* C4: Tenant isolation in ingestion.  The Application a request reads in
\* the duplicate path (whose status it compares and which it updates) and the
\* Application whose id it returns belong to the requesting user.
C4_TenantIsolation ==
    \A p \in Procs :
        /\ req[p].existing_app # NoAppRow => req[p].existing_app.user_id = req[p].user_id
        /\ (req[p].pc = "done" /\ req[p].response.application_id # NoApp)
           => \A a \in Rows(applications) :
                 a.id = req[p].response.application_id => a.user_id = req[p].user_id

\* C5: No silent downgrade.  No step of an ingestion request takes an
\* Application whose status is not "applied" to the status "applied".
C5_NoSilentDowngrade ==
    [][\A i \in DOMAIN applications :
          applications[i].status # "applied" => applications'[i].status # "applied"]_vars

\* a duplicate email whose extracted status is "applied" met an Application
\* with another status and is answered
C5_Witness ==
    \E p \in Procs :
        /\ req[p].pc = "done"
        /\ LinkedDuplicate(req[p])
        /\ req[p].parsed.status = "applied"
        /\ req[p].existing_app # NoAppRow
        /\ req[p].existing_app.status # "applied"
        /\ \E a \in Rows(applications) :
              a.id = req[p].existing_app.id /\ a.status # "applied"

\* C6: Canonical status on persist.  Every status ingestion has written onto
\* an Application is one of applied, interviewing, offer, rejected, withdrawn.
C6_CanonicalStatus ==
    \A a \in Rows(applications) : a.status \in allowed_statuses

\* C7: Relevance gate.  A request whose fingerprint is not a linked duplicate
\* and whose email is judged not job-related answers success=false,
\* application_id null, duplicate=false, and leaves the Applications and the
\* EmailRecords as they were when it started.
C7_RelevanceGate ==
    \A p \in Procs :
        (req[p].pc = "done" /\ ~LinkedDuplicate(req[p]) /\ req[p].is_job_email = "False")
        => /\ ~req[p].response.success
           /\ req[p].response.application_id = NoApp
           /\ ~req[p].response.duplicate
           /\ applications = req[p].pre_applications
           /\ email_messages = req[p].pre_emails

C7_Witness ==
    \E p \in Procs :
        /\ req[p].pc = "done"
        /\ ~LinkedDuplicate(req[p])
        /\ req[p].is_job_email = "False"
        /\ applications # <<>>

\* C8: Insufficient data.  A request whose email passes the gate and whose
\* extraction yields no company or no position creates no Application,
\* stores the EmailRecord without an application link, and answers
\* success=false with application_id null.
C8_InsufficientData ==
    \A p \in Procs :
        (/\ req[p].pc = "done"
         /\ req[p].is_job_email = "True"
         /\ NoCompanyOrNoPosition(req[p].email))
        => /\ req[p].created = NoApp
           /\ applications = req[p].pre_applications
           /\ email_messages =
                 Append(req[p].pre_emails,
                        [id |-> Len(req[p].pre_emails) + 1, application_id |-> NoApp,
                         email_hash |-> HashOf[req[p].email]])
           /\ ~req[p].response.success
           /\ req[p].response.application_id = NoApp

C8_Witness ==
    \E p \in Procs :
        /\ req[p].pc = "done"
        /\ req[p].is_job_email = "True"
        /\ NoCompanyOrNoPosition(req[p].email)
        /\ Truthy(Parsed[req[p].email].company)

\* C9: EmailRecord uniqueness.  No two EmailRecords have the same
\* fingerprint.
C9_EmailRecordUniqueness ==
    \A i, j \in DOMAIN email_messages :
        i # j => email_messages[i].email_hash # email_messages[j].email_hash

\* C10: Audit trail.  A request that changes the status of an Application
\* (the duplicate-path update of ingestion, a PATCH of the applications API)
\* appends an ApplicationEvent referencing that Application; the status is
\* written by the request's last store call, so the event is there with it.
C10_AuditTrail ==
    [][\A i \in DOMAIN applications :
          applications'[i].status # applications[i].status
          => \E k \in DOMAIN application_events' :
                /\ k > Len(application_events)
                /\ application_events'[k].application_id = applications[i].id]_vars

\* the Application linked to the EmailRecord the request found, as it was when
\* the request started
LinkedBefore(r) ==
    CHOOSE a \in Rows(r.pre_applications) : a.id = r.existing_email.application_id

\* the re-extracted status is non-empty, differs from the current one and is
\* not "applied"
StatusDiffers(r) ==
    /\ Truthy(Parsed[r.email].status)
    /\ Parsed[r.email].status # LinkedBefore(r).status
    /\ Parsed[r.email].status # "applied"

\* the re-extracted source URL is non-empty and differs from the current one
UrlDiffers(r) ==
    /\ Truthy(Parsed[r.email].source_url)
    /\ Parsed[r.email].source_url # LinkedBefore(r).source_url

\* C11: Duplicate-path decision rule.  A request whose fingerprint matches an
\* EmailRecord linked to an Application updates that Application if and only
\* if the re-extracted status is non-empty, differs from the current status
\* and is not "applied", or the re-extracted source URL is non-empty and
\* differs from the current one: the update writes exactly the differing
\* fields and no other row; otherwise the Applications are as they were.  In
\* both cases the answer is success=true, duplicate=true with the linked id.
C11_DuplicateDecisionRule ==
    \A p \in Procs :
        (req[p].pc = "done" /\ LinkedDuplicate(req[p]))
        => LET r == req[p]
               before == LinkedBefore(r)
           IN  /\ (r.update_kwargs # NoKwargs) <=> (StatusDiffers(r) \/ UrlDiffers(r))
               /\ Len(applications) = Len(r.pre_applications)
               /\ \A i \in DOMAIN applications :
                     IF applications[i].id # before.id
                     THEN applications[i] = r.pre_applications[i]
                     ELSE /\ applications[i].status =
                               IF StatusDiffers(r) THEN Parsed[r.email].status
                               ELSE before.status
                          /\ applications[i].source_url =
                               IF UrlDiffers(r) THEN Parsed[r.email].source_url
                               ELSE before.source_url
                          /\ ~StatusDiffers(r) => applications[i].notes = before.notes
                          /\ applications[i].user_id = before.user_id
                          /\ applications[i].company = before.company
                          /\ applications[i].position = before.position
               /\ r.response.status_code = 200
               /\ r.response.success
               /\ r.response.duplicate
               /\ r.response.application_id = r.existing_email.application_id

\* a duplicate whose source URL alone differs has updated the Application
C11_Witness ==
    \E p \in Procs :
        /\ req[p].pc = "done"
        /\ LinkedDuplicate(req[p])
        /\ UrlDiffers(req[p])
        /\ \E a \in Rows(applications) :
              /\ a.id = req[p].existing_email.application_id
              /\ a.source_url = Parsed[req[p].email].source_url

\* C12: Secondary-write failure tolerance.  A request whose duplicate-path
\* update raised, or whose EmailRecord insert raised after it had inserted an
\* Application, is answered with status 200, success=true and the id of the
\* Application, and the Application it inserted is still stored.
C12_SecondaryWriteTolerance ==
    \A p \in Procs :
        req[p].pc = "done"
        => /\ "update_application" \in req[p].failed
              => /\ req[p].response.status_code = 200
                 /\ req[p].response.success
                 /\ req[p].response.application_id # NoApp
                 /\ req[p].response.application_id = req[p].existing_email.application_id
           /\ "store_email" \in req[p].failed
              => /\ req[p].response.status_code = 200
                 /\ req[p].response.success
                 /\ req[p].created # NoApp
                 /\ req[p].response.application_id = req[p].created
                 /\ \E a \in Rows(applications) :
                       a.id = req[p].created /\ a.user_id = req[p].user_id

\* the EmailRecord insert of a request that had inserted an Application raised
C12_Witness ==
    \E p \in Procs :
        /\ req[p].pc = "done"
        /\ "store_email" \in req[p].failed
        /\ req[p].created # NoApp
        /\ email_messages = req[p].pre_emails

\* C13: 500 only on the critical path.  A request in which no call of the
\* profile bootstrap and no Application insert raised (whatever else raised:
\* the dedup lookup, the read of the linked Application, the
\* existing-application lookup, the unlinked EmailRecord insert) is answered
\* with status 200.
C13_500OnlyOnCriticalPath ==
    \A p \in Procs :
        (/\ req[p].pc = "done"
         /\ req[p].failed \cap {"get_profile", "create_profile", "single_no_rows",
                                "create_application"} = {})
        => req[p].response.status_code = 200

\* C14: Tenant bootstrap comes first.  A request that has left the bootstrap
\* step has a profile for its user (created by it when there was none) and
\* goes on with the dedup check; so the owner of every Application has a
\* profile, and every request at or past a write has one.
C14_TenantBootstrapFirst ==
    /\ \A p \in Procs :
          req[p].pc \notin {"idle", "get_profile", "create_profile"}
          => /\ req[p].user_id \in profiles
             /\ req[p].response.status_code # 500
    /\ \A a \in Rows(applications) : a.user_id \in profiles

RawStatus == Lower(Strip(IF Truthy(call.input.parsed_status) THEN call.input.parsed_status ELSE ""))

\* C16: Status normalization is total and idempotent.  The result of every
\* call is one of applied, interviewing, offer, rejected, withdrawn; every
\* value of the historical vocabulary is a key of the map, and a key other
\* than applied and wishlist does not fall to the default; a raw status that
\* is no key, or empty, yields applied; a raw status that is one of the five
\* yields itself, and normalizing a result returns it unchanged.
C16_NormalizationTotalIdempotent ==
    /\ ApplicationStatus \cup {"declined"} \subseteq status_map_keys
    /\ (call.fn = "normalize_status" /\ call.stage \in {"done", "again"})
       => /\ call.output.status \in {"applied", "interviewing", "offer", "rejected", "withdrawn"}
          /\ RawStatus \notin status_map_keys => call.output.status = "applied"
          /\ RawStatus \in status_map_keys \ {"applied", "wishlist"}
                => call.output.status # "applied"
          /\ RawStatus \in {"applied", "interviewing", "offer", "rejected", "withdrawn"}
                => call.output.status = RawStatus
          /\ call.stage = "again" => call.output.status = call.input.parsed_status

\* a raw status was normalized to a status other than the default, and the
\* result normalized again
C16_Witness ==
    /\ call.fn = "normalize_status"
    /\ call.stage = "again"
    /\ call.output.status = "rejected"

\* the lower-cased subject and body of a call of the classifier
CallContent ==
    Lower(call.input.subject \o " "
          \o (IF call.input.text_body \in {None, ""} THEN "" ELSE call.input.text_body))

\* some keyword of the set occurs in the content of the call
Hit(keywords) == \E kw \in keywords : Contains(CallContent, kw)

Given(field) == field # None /\ field # ""

\* C18: Override precedence in extraction.  A non-empty pre-parsed company
\* (position) of the payload is the extracted company (position), else the
\* one derived from the sender (subject); a non-empty AI-detected status is
\* the extracted status, else a non-empty pre-parsed status, else the result
\* of the keyword classifier.
C18_OverridePrecedence ==
    (call.fn = "parse_job_application_email" /\ call.stage = "done")
    => LET input == call.input
           output == call.output
       IN  /\ output.company =
                 IF Given(input.parsed_company) THEN input.parsed_company
                 ELSE extract_company_from_sender(input.sender)
           /\ output.position =
                 IF Given(input.parsed_position) THEN input.parsed_position
                 ELSE extract_position_from_subject(input.subject)
           /\ Given(input.detected_status) => output.status = input.detected_status
           /\ (~Given(input.detected_status) /\ Given(input.parsed_status))
                 => output.status = input.parsed_status
           /\ (~Given(input.detected_status) /\ ~Given(input.parsed_status))
                 => output.status =
                       detect_status_from_content(input.subject, input.text_body)

\* a payload with an AI-detected and a pre-parsed status, a pre-parsed company
\* and a sender that yields another company
C18_Witness ==
    /\ call.fn = "parse_job_application_email"
    /\ call.stage = "done"
    /\ Given(call.input.detected_status)
    /\ Given(call.input.parsed_status)
    /\ call.input.detected_status # call.input.parsed_status
    /\ call.output.status = call.input.detected_status
    /\ Given(call.input.parsed_company)
    /\ extract_company_from_sender(call.input.sender) \notin {None, call.input.parsed_company}
    /\ call.output.company = call.input.parsed_company

\* the number of satisfied conditions of a call of the confidence score:
\* company present, position present, status present and not "applied"
Satisfied ==
    (IF Given(call.input.parsed_company) THEN 1 ELSE 0)
    + (IF Given(call.input.parsed_position) THEN 1 ELSE 0)
    + (IF Given(call.input.parsed_status) /\ call.input.parsed_status # "applied"
       THEN 1 ELSE 0)

\* the score lies in [0.0, 1.0] and making a missing field of the call present
\* (with any value) does not decrease it
InRangeAndMonotone ==
    /\ call.output.confidence \in 0..100
    /\ \A v \in ConfidenceFields \ {None, ""} :
          /\ ~Given(call.input.parsed_company)
                => calculate_confidence(v, call.input.parsed_position,
                                        call.input.parsed_status) >= call.output.confidence
          /\ ~Given(call.input.parsed_position)
                => calculate_confidence(call.input.parsed_company, v,
                                        call.input.parsed_status) >= call.output.confidence
    /\ \A v \in ConfidenceStatuses \ {None, ""} :
          ~Given(call.input.parsed_status)
          => calculate_confidence(call.input.parsed_company, call.input.parsed_position, v)
                >= call.output.confidence

\* C19 as claimed: the score (in hundredths) is the number of satisfied
\* conditions divided by 3, lies in [0.0, 1.0] and is monotone.
C19_ConfidenceIsThirds ==
    (call.fn = "calculate_confidence" /\ call.stage = "done")
    => /\ 3 * call.output.confidence = 100 * Satisfied
       /\ InRangeAndMonotone

\* C19 as amended: the score is the number of satisfied conditions divided by
\* 3 and rounded to two decimals (0.0, 0.33, 0.67, 1.0: within 0.005 of the
\* quotient), lies in [0.0, 1.0] and is monotone.
C19_ConfidenceIsRoundedThirds ==
    (call.fn = "calculate_confidence" /\ call.stage = "done")
    => /\ call.output.confidence =
             CASE Satisfied = 0 -> 0 [] Satisfied = 1 -> 33
               [] Satisfied = 2 -> 67 [] OTHER -> 100
       /\ 2 * (3 * call.output.confidence - 100 * Satisfied) \in -3..3
       /\ InRangeAndMonotone

\* one condition is satisfied, the status is the default, and the score is 0.33
C19_Witness ==
    /\ call.fn = "calculate_confidence"
    /\ call.stage = "done"
    /\ Satisfied = 1
    /\ call.input.parsed_status = "applied"
    /\ call.output.confidence = 33

\* the call extracts from sender "jobs@acme.com" and subject "Application
\* Received - Software Engineer", with no body and no override field
ExtractsAcme ==
    /\ call.fn = "parse_job_application_email"
    /\ call.stage = "done"
    /\ call.input.sender = "jobs@acme.com"
    /\ call.input.subject = "Application Received - Software Engineer"
    /\ call.input.text_body = None
    /\ call.input.parsed_company = None
    /\ call.input.parsed_position = None
    /\ call.input.parsed_status = None
    /\ call.input.parsed_job_url = None
    /\ call.input.detected_status = None

\* C20 as claimed: the extraction yields company "Acme", position "Software
\* Engineer", status "applied" and confidence 1.0.
C20_ExtractionDeterminism ==
    ExtractsAcme
    => /\ call.output.company = "Acme"
       /\ call.output.position = "Software Engineer"
       /\ call.output.status = "applied"
       /\ call.output.confidence = 100

\* C20 as amended: the extraction yields company "Acme", position "Software
\* Engineer", status "applied" and confidence 0.67 (two of the three
\* conditions of the score: the status is the default).
C20_ExtractionYieldsTwoThirds ==
    ExtractsAcme
    => call.output = [company |-> "Acme", position |-> "Software Engineer",
                      status |-> "applied", source_url |-> None, confidence |-> 67]

C20_Witness == ExtractsAcme /\ call.output.company = "Acme" /\ call.output.confidence = 67


\* the canonical triple of an email: the sender lower-cased and trimmed, the
\* subject trimmed, the timestamp as ISO string or empty when absent
CanonicalTriple(e) ==
    [sender |-> Strip(Lower(e.sender)), subject |-> Strip(e.subject),
     received_at |-> IF e.received_at = None THEN "" ELSE e.received_at]

HashedPair == call.fn = "generate_email_hash" /\ call.stage = "done"

ApiKeyResolvesTo(u) ==
    \E row \in api.pre_api_keys :
        /\ row.api_key = api.x_api_key
        /\ row.user_id = u
        /\ (row.expires_at = NoTime \/ row.expires_at >= api.validated_at)

\* the bearer token of the request is a valid token of user u
BearerResolvesTo(u) ==
    /\ api.jwt_credentials # None
    /\ ~jwt_decode(api.jwt_credentials).JWTError
    /\ jwt_decode(api.jwt_credentials).sub = u

InHandler == req[1].pc # "idle"

Previewed == api.stage = "idle" /\ api'.endpoint = "POST /ingest/email/test"

\* C23: a call of POST /ingest/email/test leaves profiles, applications,
\* email records and events as they were, and when it answers it reports
\* would_create_duplicate exactly when an email record with the fingerprint of
\* the payload exists.
C23_PreviewReadsOnly ==
    [][Previewed =>
          /\ store' = store
          /\ api_keys' = api_keys
          /\ api'.status_code = 200 =>
                (api'.would_create_duplicate
                    <=> \E i \in DOMAIN email_messages :
                           email_messages[i].email_hash = HashOf[api'.email])]_vars

\* the preview of an email whose fingerprint is stored answered, between two
\* store calls of an ingestion
C23_Witness ==
    /\ api.endpoint = "POST /ingest/email/test"
    /\ api.status_code = 200
    /\ api.would_create_duplicate
    /\ api.existing_application_id # NoApp
    /\ req[1].pc = "check_duplicate"

\* the call to the AI classifier failed, timed out, was answered with another
\* status than 200 or with output that cannot be parsed
AIFailed ==
    call.reply.kind \in {"timeout", "status_500", "no_choices", "not_json", "json_list",
                         "json_null"}

\* C24: when the call to the AI classifier fails, times out, returns a status
\* other than 200 or unparsable output, the verdict of the gate is the verdict
\* of the keyword heuristic; the gate yields a boolean in every case.
C24_AIFallback ==
    (call.fn = "_is_job_application" /\ call.stage = "done") =>
        /\ AIFailed => call.is_job_email = Repr(is_job_by_keywords(call.input))
        /\ call.is_job_email \in {"True", "False"}

\* the request was no fingerprint duplicate and its extracted company and
\* position are those of an application the user had when it started
ResolvedToExisting(r) ==
    /\ r.pc = "done"
    /\ r.is_job_email = "True"
    /\ r.existing_email = NoEmailRow
    /\ Extracted(r)
    /\ MatchesExisting(r) # {}

\* C25: an ingested email that is no fingerprint duplicate and resolves to the
\* (user, company, position) of an existing Application creates no
\* Application, and a status other than the default derived from it is the
\* status of the existing Application afterwards.
C25_MergeOnNaturalKey ==
    \A p \in Procs :
        ResolvedToExisting(req[p]) =>
            /\ Len(applications) = Len(req[p].pre_applications)
            /\ req[p].parsed.status # "applied" =>
                  \E a \in Rows(applications) :
                      /\ a.id \in {m.id : m \in MatchesExisting(req[p])}
                      /\ a.status = normalize_status(req[p].parsed.status)

\* the application of the call that was answered belonged to the caller
OwnedByCaller ==
    \E row \in Rows(api.pre_applications) :
        row.id = api.application_id /\ row.user_id = api.user_id

ApiAnswered ==
    /\ api.stage = "responded"
    /\ api.endpoint \in {"GET /applications/{application_id}",
                         "PATCH /applications/{application_id}",
                         "DELETE /applications/{application_id}",
                         "POST /applications/{application_id}/events"}

\* C26: get, update and delete of an Application by id and the creation of an
\* event for it succeed exactly when the Application belongs to the caller;
\* for the Application of another user the call is answered 404 and leaves
\* applications and events as they were.
C26_ApiTenantIsolation ==
    ApiAnswered =>
        /\ api.status_code \in {200, 201, 204} <=> OwnedByCaller
        /\ ~OwnedByCaller =>
              /\ api.status_code = 404
              /\ applications = api.pre_applications
              /\ application_events = api.pre_events

\* the number of applications the caller had before the call
CountBefore ==
    Cardinality({i \in DOMAIN api.pre_applications :
                    api.pre_applications[i].user_id = api.user_id})

\* the caller is on the plan with a maximum number of applications
OnLimitedPlan == api.user_id = "u1"

\* C27: a create request of a user on a plan with a maximum number of
\* applications succeeds while the user has fewer applications than the
\* maximum, and is rejected with 403 and creates no Application once the
\* maximum is reached.
C27_ApplicationLimit ==
    (api.stage = "responded" /\ api.endpoint = "POST /applications" /\ OnLimitedPlan) =>
        IF CountBefore >= max_applications
        THEN api.status_code = 403 /\ applications = api.pre_applications
        ELSE api.status_code = 201 => Len(applications) = Len(api.pre_applications) + 1

\* GET /token was answered
TokenAnswered == api.stage = "responded" /\ api.endpoint = "GET /token"

\* the handle of the answered request was issued, not ended, and its expiry
\* time had not passed at time t
HandleValid(t) ==
    /\ api.handle \in DOMAIN issued
    /\ api.handle \notin ended
    /\ issued[api.handle].expires_at >= t

\* C28: GET /token returns an access token only for a handle that
\* /session/start issued, that was not ended and whose expiry time has not
\* passed when the answer is given, and it is the token of that session; for
\* a handle that is unknown, ended or expired when the request arrives the
\* answer is 401, whatever calls and clock advances came before.
C28_SessionValidity ==
    TokenAnswered =>
        /\ api.access_token # "" <=> api.status_code = 200
        /\ api.status_code = 200 =>
              HandleValid(api.at) /\ api.access_token = issued[api.handle].access_token
        /\ ~HandleValid(api.arrived) => api.status_code = 401

\* the token of a handle that was ended before its expiry time was asked for,
\* after a second session was started
C28_Witness ==
    /\ TokenAnswered
    /\ api.status_code = 401
    /\ api.handle \in ended
    /\ issued[api.handle].expires_at >= api.at
    /\ Len(issued) = 2

(***************************************************************************)
(* Properties of re-ingestion and of the existence lookup.                 *)
(***************************************************************************)
\* the request is the second ingestion of its payload by its user, and the
\* first ingestion created an Application
SecondIngestionOfCreated(r) ==
    /\ r.pc = "done"
    /\ history[r.user_id][r.email].count = 1
    /\ Created(history[r.user_id][r.email].first)

\* C29: Re-ingestion is a no-op on the Application.  When the first
\* ingestion of a payload created an Application, the second ingestion of the
\* identical payload leaves that Application's status, source_url and notes
\* as they were (requests run one after the other: as the second ingestion
\* found them), for every payload, those whose raw status is normalized at
\* creation or that carry a job-posting URL included.
C29_ReingestionNoOp ==
    \A p \in Procs :
        SecondIngestionOfCreated(req[p])
        => \A i \in DOMAIN req[p].pre_applications :
              applications[i].id = history[req[p].user_id][req[p].email].first.application_id
              => /\ applications[i].status = req[p].pre_applications[i].status
                 /\ applications[i].source_url = req[p].pre_applications[i].source_url
                 /\ applications[i].notes = req[p].pre_applications[i].notes

\* the Applications of the request's user under the (company, position) the
\* request extracted, as they were when the request started
MatchesBefore(r) ==
    {a \in Rows(r.pre_applications) :
        /\ a.user_id = r.user_id
        /\ a.company = r.parsed.company
        /\ a.position = r.parsed.position}

LookupFailed(r) == "lookup_application" \in r.failed

\* The claim as stated in the specification: an Application is inserted only
\* by a request whose lookup completed and returned no match.
C30_CreateOnlyAfterCleanLookup ==
    \A p \in Procs :
        req[p].created # NoApp => ~LookupFailed(req[p]) /\ MatchesBefore(req[p]) = {}

\* C30: Create only after the existence check.  Ingestion inserts a new
\* Application only after the (user, company, position) lookup has completed
\* and returned no match, or has failed; a request whose lookup fails goes on
\* to the insert: it ends having inserted an Application, or with the 500 of
\* a failed insert.
C30_CreateAfterLookup ==
    \A p \in Procs :
        /\ req[p].created # NoApp => LookupFailed(req[p]) \/ MatchesBefore(req[p]) = {}
        /\ (LookupFailed(req[p]) /\ req[p].pc = "done")
           => \/ req[p].created # NoApp
              \/ /\ "create_application" \in req[p].failed
                 /\ req[p].response.status_code = 500

\* a request whose lookup failed inserted a second Application under a
\* (company, position) its user already had
C30_Witness ==
    \E p \in Procs :
        /\ req[p].pc = "done"
        /\ LookupFailed(req[p])
        /\ req[p].created # NoApp
        /\ MatchesBefore(req[p]) # {}
        /\ req[p].response.success

=============================================================================
